---- MODULE Spec2Model ----
(***************************************************************************)
(* GeoData-Standardizer: the parser contract (BaseParser and its three     *)
(* variants ElecParser, SeismicParser, RadarParser), the Dispatcher, the   *)
(* QCChecker and the Standardizer.                                         *)
(*                                                                         *)
(* Numbers are integers in thousandths (0.001 is 1, 1e6 is 10^9), so that  *)
(* the range table of every variant is exact.  A table cell is a record    *)
(* [k, v]: a number ("num"), a null/NaN ("null"), text that is no numeral   *)
(* ("text", v is the rank of the string in lexicographic order) or the     *)
(* numeral of v held as a string ("str").                                  *)
(***************************************************************************)
EXTENDS Integers, Sequences, FiniteSets, TLC

\* ------------------------------------------------------------------ bounds
MaxRows == 2
MaxTableRows == 2
MaxQCRows == 21

\* --------------------------------------------------------------- constants
Unit == 1000

Variants == {"electrical", "seismic", "radar"}

\* ------------------------------------------------------------------- cells
Num(n) == [k |-> "num", v |-> n]
Null == [k |-> "null", v |-> 0]
Text(i) == [k |-> "text", v |-> i]
NumStr(n) == [k |-> "str", v |-> n]

\* the cells that are Python str objects
IsStr(cell) == cell.k \in {"text", "str", "nan_str"}

SeqToSet(s) == {s[i] : i \in 1..Len(s)}

RECURSIVE SeqsUpTo(_, _)
SeqsUpTo(S, n) ==
    IF n = 0 THEN {<< >>}
    ELSE LET shorter == SeqsUpTo(S, n - 1)
         IN  shorter \cup {Append(s, x) : s \in {q \in shorter : Len(q) = n - 1}, x \in S}

Min(S) == CHOOSE x \in S : \A y \in S : x <= y

\* ------------------------------------------------------------------ tables
\* A DataFrame: column labels (duplicates possible after renaming) and rows.
Table(cols, rows) == [cols |-> cols, rows |-> rows]

\* `col in data.columns`
HasCol(t, c) == \E i \in 1..Len(t.cols) : t.cols[i] = c

ColIdx(t, c) == {i \in 1..Len(t.cols) : t.cols[i] = c}

\* the cells of every column labelled c
ColCells(t, c) == {<<r, i>> : r \in 1..Len(t.rows), i \in ColIdx(t, c)}

CellAt(t, ri) == t.rows[ri[1]][ri[2]]

\* data[c] compared with a number: str against int raises TypeError
HasText(t, c) == \E ri \in ColCells(t, c) : IsStr(CellAt(t, ri))

\* data[c] is a DataFrame, not a Series, when the label c is duplicated
IsFrame(t, c) == Cardinality(ColIdx(t, c)) > 1

\* ---------------------------------------------------------------- outcomes
Outcome(kind, why, cols, count) ==
    [cols |-> cols, kind |-> kind, why |-> why, count |-> count]

Ok == Outcome("ok", "", << >>, 0)

ValidationError(why, cols, count) == Outcome("ValidationError", why, cols, count)
ParserError(why) == Outcome("ParserError", why, << >>, 0)
TypeError(c) == Outcome("TypeError", "compare", <<c>>, 0)
ValueError(c) == Outcome("ValueError", "ambiguous", <<c>>, 0)

\* ------------------------------------------------- per-variant config tables
required(v) ==
    CASE v = "electrical" -> <<"station_id", "depth_m", "resistivity_ohm_m">>
      [] v = "seismic"    -> <<"trace_number", "time_ms", "amplitude">>
      [] v = "radar"      -> <<"trace_number", "sample_number", "amplitude">>

range_map(v) ==
    LET Range(c, lo, hi) == [col |-> c, min |-> lo, max |-> hi]
    IN
    CASE v = "electrical" ->
           << Range("depth_m", 0, 10000 * Unit),
              Range("resistivity_ohm_m", 1, 1000000 * Unit),
              Range("current_ma", 0, 10000 * Unit),
              Range("voltage_mv", 0, 100000 * Unit) >>
      [] v = "seismic" ->
           << Range("time_ms", 0, 100000 * Unit),
              Range("amplitude", -(1000000 * Unit), 1000000 * Unit),
              Range("offset_m", 0, 100000 * Unit) >>
      [] v = "radar" ->
           << Range("sample_number", 0, 100000 * Unit),
              Range("amplitude", -(32768 * Unit), 32767 * Unit),
              Range("distance_m", 0, 10000 * Unit),
              Range("time_ns", 0, 1000000 * Unit),
              Range("antenna_freq_mhz", 10 * Unit, 5000 * Unit) >>

\* the alias table of parse(): raw header name -> canonical name
column_map(v) ==
    CASE v = "electrical" ->
           [n \in {"station", "Station", "STATION"} |-> "station_id"]
           @@ [n \in {"depth", "Depth", "DEPTH", "depth_m"} |-> "depth_m"]
           @@ [n \in {"resistance", "resistivity", "Resistivity", "RESISTIVITY"}
                   |-> "resistivity_ohm_m"]
           @@ [n \in {"current", "Current"} |-> "current_ma"]
           @@ [n \in {"voltage", "Voltage"} |-> "voltage_mv"]
      [] v = "seismic" ->
           [n \in {"trace", "Trace", "TRACE"} |-> "trace_number"]
           @@ [n \in {"time", "Time", "TIME", "time_ms"} |-> "time_ms"]
           @@ [n \in {"amp", "Amplitude", "AMPLITUDE"} |-> "amplitude"]
           @@ [n \in {"station", "Station"} |-> "station_id"]
           @@ [n \in {"offset", "Offset"} |-> "offset_m"]
      [] v = "radar" ->
           [n \in {"trace", "Trace", "TRACE"} |-> "trace_number"]
           @@ [n \in {"sample", "Sample", "SAMPLE"} |-> "sample_number"]
           @@ [n \in {"amp", "Amplitude", "AMPLITUDE"} |-> "amplitude"]
           @@ [n \in {"distance", "Distance"} |-> "distance_m"]
           @@ [n \in {"time", "Time", "time_ns"} |-> "time_ns"]
           @@ [n \in {"frequency", "freq", "antenna_frequency"} |-> "antenna_freq_mhz"]

\* --------------------------------------------------- BaseParser's helpers
\* the first failure of two checks run one after the other
OrElse(first, second) == IF first.kind # "ok" THEN first ELSE second

\* the error as it would be if only the first missing column were reported
MissingOutcomeFirstOnly(missing_columns) ==
    IF missing_columns # << >> THEN ValidationError("missing", <<missing_columns[1]>>, 0)
    ELSE Ok

MissingOutcome(missing_columns) ==
    IF missing_columns # << >> THEN ValidationError("missing", missing_columns, 0) ELSE Ok

\* missing_columns = [col for col in required_columns if col not in data.columns]
_check_required_columns(data, required_columns) ==
    MissingOutcome(SelectSeq(required_columns, LAMBDA c : ~HasCol(data, c)))

\* the comparison as it would be with exclusive bounds
OutOfRangeExclusive(cell, r) == cell.k = "num" /\ (cell.v <= r.min \/ cell.v >= r.max)

\* the comparison as it would be if a null cell counted as out of range
OutOfRangeOrNull(cell, r) ==
    cell.k = "null" \/ (cell.k = "num" /\ (cell.v < r.min \/ cell.v > r.max))

\* (cell < min_val) | (cell > max_val); NaN compares false
OutOfRange(cell, r) == cell.k = "num" /\ (cell.v < r.min \/ cell.v > r.max)

\* for column, (min_val, max_val) in range_map.items(): a column that is
\* absent is skipped; out_of_range = ((data[column] < min_val) |
\* (data[column] > max_val)).sum(); if out_of_range > 0: raise.  The first
\* entry that raises ends the loop.
RECURSIVE _check_value_ranges(_, _, _)
_check_value_ranges(data, rm, i) ==
    IF i > Len(rm) THEN Ok
    ELSE OrElse(
           IF ~HasCol(data, rm[i].col) THEN Ok
           ELSE IF HasText(data, rm[i].col) THEN TypeError(rm[i].col)
           ELSE IF IsFrame(data, rm[i].col) THEN ValueError(rm[i].col)
           ELSE IF \E ri \in ColCells(data, rm[i].col) : OutOfRange(CellAt(data, ri), rm[i])
                THEN ValidationError("range", <<rm[i].col>>,
                         Cardinality({ri \in ColCells(data, rm[i].col) :
                                         OutOfRange(CellAt(data, ri), rm[i])}))
                ELSE Ok,
           _check_value_ranges(data, rm, i + 1))

\* (data[c] < 0).any() / (data[c] <= 0).any() inside an `if`
sign_rules(v) ==
    LET SignRule(c, strict, why) == [why |-> why, col |-> c, strict |-> strict]
    IN
    CASE v = "electrical" ->
           << SignRule("depth_m", FALSE, "depth_negative"),
              SignRule("resistivity_ohm_m", TRUE, "resistivity_not_positive") >>
      [] v = "seismic" -> << SignRule("time_ms", FALSE, "time_negative") >>
      [] v = "radar"   -> << SignRule("sample_number", FALSE, "sample_negative") >>

\* the `if` statements after the range check, in order: a column holding
\* text raises TypeError, a duplicated label ValueError
RECURSIVE check_signs(_, _, _)
check_signs(data, sr, i) ==
    IF i > Len(sr) THEN Ok
    ELSE OrElse(
           IF HasText(data, sr[i].col) THEN TypeError(sr[i].col)
           ELSE IF IsFrame(data, sr[i].col) THEN ValueError(sr[i].col)
           ELSE IF \E ri \in ColCells(data, sr[i].col) :
                      /\ CellAt(data, ri).k = "num"
                      /\ IF sr[i].strict THEN CellAt(data, ri).v <= 0
                                         ELSE CellAt(data, ri).v < 0
                THEN ValidationError(sr[i].why, <<sr[i].col>>, 0)
                ELSE Ok,
           check_signs(data, sr, i + 1))

\* validate() as it would be if the value checks were left out
validate_checks_required_only(v, data) == _check_required_columns(data, required(v))

\* the body of validate() after the None tests, up to the flag assignment:
\* required columns, then ranges, then sign rules
validate_checks(v, data) ==
    OrElse(_check_required_columns(data, required(v)),
           OrElse(_check_value_ranges(data, range_map(v), 1),
                  check_signs(data, sign_rules(v), 1)))

\* --------------------------------------------------------- the parser object
\* Optional values (None or a value) are sequences of length 0 or 1.
None == << >>
Some(x) == <<x>>

MV(t, s, lo, hi) == [s |-> s, t |-> t, lo |-> lo, hi |-> hi]
MStr(s) == MV("str", s, Null, Null)
MInt(n) == MV("int", "", Num(n), Null)

\* BaseParser.__init__ after _validate_file_path() has accepted the file
NewParser(v, f) ==
    [ data         |-> None,
      variant      |-> v,
      file         |-> f,
      metadata     |-> [key \in {"file_name", "file_path", "created_at"} |-> MStr(key)],
      raw_data     |-> None,
      is_loaded    |-> FALSE,
      is_parsed    |-> FALSE,
      is_validated |-> FALSE ]

\* a call's effect: the parser afterwards, the outcome, the steps process ran
Run(s, out, steps) == [s |-> s, out |-> out, steps |-> steps]

Ret(s, out) == Run(s, out, << >>)

\* load(): read the file; any exception becomes ParserError
load(s) ==
    IF s.file.readable
    THEN Ret([s EXCEPT !.raw_data = Some(s.file.text), !.is_loaded = TRUE], Ok)
    ELSE Ret(s, ParserError("load"))

\* validate() as it would be if a failed check also cleared the flag
validated_or_cleared(s, o) ==
    IF o.kind = "ok" THEN Ret([s EXCEPT !.is_validated = TRUE], Ok)
    ELSE Ret([s EXCEPT !.is_validated = FALSE], o)

\* validate() as it would be if the flag were set before the checks run
validated_first(s, o) == Ret([s EXCEPT !.is_validated = TRUE], o)

\* self._is_validated = True; return True -- reached only when no check raised
validated_if_ok(s, o) ==
    IF o.kind = "ok" THEN Ret([s EXCEPT !.is_validated = TRUE], Ok) ELSE Ret(s, o)

\* validate() as it would be if a missing table were reported as ParserError
no_data_plain == ParserError("no_data")

\* raise ValidationError("No data to validate. Call parse() first.")
no_data == ValidationError("no_data", << >>, 0)

\* validate(data=None) of the three variants
\* if data is None: data = self.data
validate(s, arg) ==
    IF (IF arg = None THEN s.data ELSE arg) = None THEN Ret(s, no_data)
    ELSE validated_if_ok(s, validate_checks(s.variant, (IF arg = None THEN s.data ELSE arg)[1]))

\* ------------------------------------------------------------ pd.read_csv
\* Raw text: a header line of names and data lines of fields.  A field is a
\* number (Num), other text (Text) or empty.  An empty text has no header line.
FEmpty == [k |-> "empty", v |-> 0]

RawText(header, rows) == [rows |-> rows, header |-> header]

\* The tokenizer takes the width w of the first data line as the expected
\* width; fields of that line in excess of the header are leading index
\* columns and do not become columns of the frame.  None when pandas raises:
\* EmptyDataError for a text without columns, "Error tokenizing data" for a
\* line with more fields than expected; shorter lines are padded with nulls.
\* A column is numeric unless one of its fields is non-numeric text; in a
\* textual column the numerals stay strings.
read_lines(header, lines, w, lead) ==
    LET FieldAt(row, i) == IF i <= Len(row) THEN row[i] ELSE FEmpty
        CellOf(f, textual) ==
            IF f.k = "empty" THEN Null
            ELSE IF ~textual THEN Num(f.v)
            ELSE IF f.k = "text" THEN Text(f.v) ELSE NumStr(f.v)
    IN  IF Len(header) = 0 THEN None
        ELSE IF \E r \in 1..Len(lines) : Len(lines[r]) > w THEN None
        ELSE Some(Table(header,
                        [r \in 1..Len(lines) |->
                            [i \in 1..Len(header) |->
                                CellOf(FieldAt(lines[r], lead + i),
                                       \E q \in 1..Len(lines) :
                                           FieldAt(lines[q], lead + i).k = "text")]]))

\* skip_blank_lines: a line with no character at all is dropped
read_csv(text) ==
    LET lines == SelectSeq(text.rows,
                     LAMBDA row : ~(Len(row) = 0 \/ (Len(row) = 1 /\ row[1].k = "empty")))
    IN  read_lines(text.header, lines,
                   IF lines = << >> THEN Len(text.header) ELSE Len(lines[1]),
                   IF lines # << >> /\ Len(lines[1]) > Len(text.header)
                   THEN Len(lines[1]) - Len(text.header) ELSE 0)

\* data.rename(columns={old: new for old, new in column_map.items() if old in data.columns})
_standardize_column_names(data, cm) ==
    Table([i \in 1..Len(data.cols) |->
              IF data.cols[i] \in DOMAIN cm THEN cm[data.cols[i]] ELSE data.cols[i]],
          data.rows)

\* ------------------------------------------------------- parse(): metadata
data_type(v) ==
    CASE v = "electrical" -> "electrical_resistivity"
      [] v = "seismic"    -> "seismic"
      [] v = "radar"      -> "radar"

\* the computed entries of metadata.update({...}) after data_type, record_count
stats(v) ==
    LET Stat(key, kind, c) == [kind |-> kind, col |-> c, key |-> key]
    IN
    CASE v = "electrical" ->
           << Stat("stations", "nunique", "station_id"),
              Stat("depth_range_m", "range", "depth_m"),
              Stat("resistivity_range_ohm_m", "range", "resistivity_ohm_m") >>
      [] v = "seismic" ->
           << Stat("traces", "nunique", "trace_number"),
              Stat("time_range_ms", "range", "time_ms"),
              Stat("amplitude_range", "range", "amplitude") >>
      [] v = "radar" ->
           << Stat("traces", "nunique", "trace_number"),
              Stat("samples_per_trace", "nunique", "sample_number"),
              Stat("amplitude_range", "range", "amplitude"),
              Stat("distance_range_m", "range", "distance_m") >>

\* df[c].nunique() if c in df else 0
nunique(df, c) ==
    IF ~HasCol(df, c) THEN MInt(0)
    ELSE IF IsFrame(df, c) THEN MV("series", "", Null, Null)
    ELSE MInt(Cardinality({x \in {CellAt(df, ri) : ri \in ColCells(df, c)} : x.k # "null"}))

\* strings compare lexicographically: a numeral sorts before any other text,
\* and the numerals of the source files ("-1.0", "1.0") sort as their values
PairOf(texts, numerals, nums) ==
    IF texts # {}
    THEN MV("pair", "",
            IF numerals # {} THEN NumStr(Min(numerals)) ELSE Text(Min(texts)),
            Text(CHOOSE x \in texts : \A y \in texts : x >= y))
    ELSE IF nums # {}
    THEN MV("pair", "", Num(Min(nums)), Num(CHOOSE x \in nums : \A y \in nums : x >= y))
    ELSE MV("pair", "", Null, Null)

\* (df[c].min(), df[c].max()) if c in df else None
min_max(df, c) ==
    LET ColValues(kind) ==
            {x.v : x \in {y \in {CellAt(df, ri) : ri \in ColCells(df, c)} : y.k = kind}}
    IN  IF ~HasCol(df, c) THEN MV("none", "", Null, Null)
        ELSE IF IsFrame(df, c) THEN MV("series", "", Null, Null)
        ELSE PairOf(ColValues("text"), ColValues("str"), ColValues("num"))

\* the dict passed to metadata.update; None when building it raises:
\* df[c].min() / .max() of an object column holding both text and NaN raises
\* TypeError (NaN is filled with +inf/-inf before the comparison)
update_dict(v, df, st) ==
    LET StatOf(key) == CHOOSE x \in SeqToSet(st) : x.key = key
    IN  IF \E i \in 1..Len(st) :
              /\ st[i].kind = "range"
              /\ \E j \in ColIdx(df, st[i].col) :
                    /\ \E r \in 1..Len(df.rows) : IsStr(df.rows[r][j])
                    /\ \E r \in 1..Len(df.rows) : df.rows[r][j].k = "null"
        THEN None
        ELSE Some([key \in {"data_type", "record_count"} \cup {st[i].key : i \in 1..Len(st)} |->
                      IF key = "data_type" THEN MStr(data_type(v))
                      ELSE IF key = "record_count" THEN MInt(Len(df.rows))
                      ELSE IF StatOf(key).kind = "nunique" THEN nunique(df, StatOf(key).col)
                      ELSE min_max(df, StatOf(key).col)])

\* the value parse() and process() return: the parser's own dict and frame
Result(s) == Some([data |-> s.data, metadata |-> s.metadata])

\* parse() as it would be if data_type were stamped before the statistics
parsed_or_stamped(s, df, upd) ==
    IF upd = None
    THEN Ret([s EXCEPT !.metadata = [key \in {"data_type"} |-> MStr(data_type(s.variant))]
                                     @@ s.metadata],
             ParserError("parse_failed"))
    ELSE Ret([s EXCEPT !.metadata = upd[1] @@ s.metadata,
                       !.data = Some(df),
                       !.is_parsed = TRUE], Ok)

\* self.metadata.update({...}); self._data = df; self._is_parsed = True
parsed(s, df, upd) ==
    IF upd = None THEN Ret(s, ParserError("parse_failed"))
    ELSE Ret([s EXCEPT !.metadata = upd[1] @@ s.metadata,
                       !.data = Some(df),
                       !.is_parsed = TRUE], Ok)

\* df = pd.read_csv(...); df = self._standardize_column_names(df, column_map);
\* self.metadata.update({...}); any exception becomes ParserError
parse_csv(s, csv) ==
    IF csv = None THEN Ret(s, ParserError("parse_failed"))
    ELSE parsed(s, _standardize_column_names(csv[1], column_map(s.variant)),
                update_dict(s.variant,
                            _standardize_column_names(csv[1], column_map(s.variant)),
                            stats(s.variant)))

\* parse() of the three variants
parse(s) ==
    IF ~s.is_loaded THEN Ret(s, ParserError("not_loaded"))
    ELSE parse_csv(s, read_csv(s.raw_data[1]))

\* ------------------------------------------------------------- process()
\* one step of process(): r is the call made, a the run so far
Then(a, r, step) == Run(r.s, r.out, Append(a.steps, step))

\* process() as it would be if it parsed again on every call
parse_step_always(a) ==
    IF a.out.kind # "ok" THEN a ELSE Then(a, parse(a.s), "parse")

\* if not self.is_parsed: result = self.parse()
parse_step(a) ==
    IF a.out.kind # "ok" THEN a
    ELSE IF ~a.s.is_parsed THEN Then(a, parse(a.s), "parse")
    ELSE a

\* process() as it would be if it validated whatever it was asked
validate_step_always(b, skip_validation) ==
    IF b.out.kind # "ok" THEN b ELSE Then(b, validate(b.s, None), "validate")

\* if not skip_validation and not self.is_validated: self.validate()
validate_step(b, skip_validation) ==
    IF b.out.kind # "ok" THEN b
    ELSE IF ~skip_validation /\ ~b.s.is_validated THEN Then(b, validate(b.s, None), "validate")
    ELSE b

\* process(skip_validation): the steps it runs, the final state and outcome
\* it begins with `if not self.is_loaded: self.load()`
process(s, skip_validation) ==
    validate_step(parse_step(IF ~s.is_loaded THEN Then(Run(s, Ok, << >>), load(s), "load")
                                             ELSE Run(s, Ok, << >>)),
                  skip_validation)

\* ------------------------------------------------------------ source files
\* one data line under a header: identifier fields are text; the other fields
\* are 1.0 (in every range), -1.0, empty or text; a long line has one more
\* field than the header
MkRow(header, kind) ==
    LET base == [i \in 1..Len(header) |->
                    IF header[i] \in {"station", "trace", "col1"} THEN Text(1)
                    ELSE CASE kind = "good"  -> Num(Unit)
                           [] kind = "long"  -> Num(Unit)
                           [] kind = "bad"   -> Num(-Unit)
                           [] kind = "empty" -> FEmpty
                           [] kind = "text"  -> Text(2)]
    IN  IF kind = "long" THEN Append(base, Num(Unit)) ELSE base

File(readable, text) == [readable |-> readable, text |-> text]

\* non-empty existing files with up to MaxRows data lines of each kind; one
\* file cannot be read (e.g. undecodable).  Header names on offer, per
\* variant: for each of four positions, the names a file may use there (""
\* leaves the position out).
Files(v) ==
    LET sl == CASE v = "electrical" ->
                     << {"", "station"}, {"depth", "col1"}, {"resistivity"}, {"", "Depth"} >>
                [] v = "seismic" ->
                     << {"", "trace"}, {"time", "col1"}, {"amplitude"}, {"", "Time"} >>
                [] v = "radar" ->
                     << {"", "trace"}, {"sample", "col1"}, {"amplitude"}, {"", "Sample"} >>
        Headers == {SelectSeq(<<a, b, c, d>>, LAMBDA n : n # "") :
                       a \in sl[1], b \in sl[2], c \in sl[3], d \in sl[4]}
    IN  {File(TRUE, RawText(h, [i \in 1..Len(ks) |-> MkRow(h, ks[i])])) :
            h \in Headers,
            ks \in SeqsUpTo({"good", "bad", "empty", "text", "long"}, MaxRows)}
        \cup {File(FALSE, RawText(<<"col1">>, << >>))}

\* ------------------------------------------- tables handed to validate(data)
RangeOf(v, c) == CHOOSE r \in SeqToSet(range_map(v)) : r.col = c

\* the declared bounds of a column and the values one unit outside them
Boundary(r) == {Num(r.min - Unit), Num(r.min), Num(r.max), Num(r.max + Unit)}

\* a family of tables: a header and, per column, the cells a row may hold
Shape(header, choices) == [header |-> header, choices |-> choices]

\* the families of tables handed to validate(data)
Shapes(v) ==
    LET req == required(v)
        \* the column the variant's sign rule is about
        sc == sign_rules(v)[Len(sign_rules(v))].col
        \* range-checked columns that are not required, in range-table order
        optional == SelectSeq([i \in 1..Len(range_map(v)) |-> range_map(v)[i].col],
                              LAMBDA c : c \notin SeqToSet(req))
        IsRangeCol(c) == \E i \in 1..Len(range_map(v)) : range_map(v)[i].col = c
        ranged(i) == IsRangeCol(req[i])
        \* the lower bound of a column and the values one unit outside its bounds
        AtMin(c) == Num(RangeOf(v, c).min)
        Below(c) == Num(RangeOf(v, c).min - Unit)
        Above(c) == Num(RangeOf(v, c).max + Unit)
    IN  \* every required column, range-checked cells at and around the bounds or null
        { Shape(req, [i \in 1..Len(req) |->
                         IF ranged(i) THEN Boundary(RangeOf(v, req[i])) \cup {Null}
                         ELSE {Text(1)}]),
        \* every required column, with text among the cells of range-checked columns
          Shape(req, [i \in 1..Len(req) |->
                         IF ranged(i) THEN {AtMin(req[i]), Below(req[i]), Text(2)}
                         ELSE {Text(1)}]),
        \* every required column and a second column labelled like the sign-rule column
          Shape(Append(req, sc),
                [i \in 1..Len(req) + 1 |->
                    IF i > Len(req) THEN {AtMin(sc), Below(sc)}
                    ELSE IF ranged(i) THEN {AtMin(req[i]), Below(req[i])}
                    ELSE {Text(1)}]),
        \* every required column, the sign-rule column around zero
          Shape(req, [i \in 1..Len(req) |->
                         IF req[i] = sc THEN {Num(-1), Num(0), Num(1)}
                         ELSE IF ranged(i) THEN {AtMin(req[i])}
                         ELSE {Text(1)}]),
        \* every required column, every cell a number or null
          Shape(req, [i \in 1..Len(req) |->
                         IF ranged(i) THEN {AtMin(req[i]), Below(req[i]), Null}
                         ELSE {Num(Unit), Null}]) }
        \* every required column and one optional range-checked column
        \cup { Shape(Append(req, optional[j]),
                     [i \in 1..Len(req) + 1 |->
                         IF i > Len(req) THEN Boundary(RangeOf(v, optional[j]))
                         ELSE IF ~ranged(i) THEN {Text(1)}
                         ELSE IF i = Len(req) THEN {AtMin(req[i]), Above(req[i])}
                         ELSE {AtMin(req[i])}]) : j \in 1..Len(optional) }
        \* some required columns only (col1, col2 when none), values in and out of range
        \cup { IF SelectSeq(req, LAMBDA c : c \in keep) = << >>
               THEN Shape(<<"col1", "col2">>, <<{Num(Unit)}, {Num(Unit), Num(-Unit)}>>)
               ELSE Shape(SelectSeq(req, LAMBDA c : c \in keep),
                          [i \in 1..Len(SelectSeq(req, LAMBDA c : c \in keep)) |->
                              IF IsRangeCol(SelectSeq(req, LAMBDA c : c \in keep)[i])
                              THEN {AtMin(SelectSeq(req, LAMBDA c : c \in keep)[i]),
                                    Below(SelectSeq(req, LAMBDA c : c \in keep)[i])}
                              ELSE {Text(1)}]) :
               keep \in (SUBSET SeqToSet(req)) \ {SeqToSet(req)} }

\* the tables of a family with up to MaxTableRows rows
TablesOf(sh) ==
    {Table(sh.header, rows) :
        rows \in SeqsUpTo({row \in [1..Len(sh.header) -> UNION SeqToSet(sh.choices)] :
                              \A i \in 1..Len(sh.header) : row[i] \in sh.choices[i]},
                          MaxTableRows)}

\* a file with the canonical header and no data line
SampleFile(v) == File(TRUE, RawText(required(v), << >>))

\* ------------------------------------------------------------------- state
VARIABLES
    variant,        \* which parser class the instance is
    file,           \* the source file behind file_path
    metadata, data, raw_data, is_loaded, is_parsed, is_validated,
    input,          \* a table the caller holds to pass to validate(data), or None
    last,           \* the last call: operation, arguments, outcome, steps, result
    pre,            \* the parser's fields when the last call started
    parser_map,     \* Dispatcher._parser_map: (type tag, parser class) in insertion order
    standardized,   \* the dataset standardize() returned to the caller, or None
    disk,           \* the files write_output() has written
    output_format,  \* Standardizer.output_format, None before construction
    cli             \* main(): where it stands, the steps it ran, qc_result, exit code

vars == <<variant, file, metadata, data, raw_data, is_loaded, is_parsed,
          is_validated, input, last, pre, parser_map, standardized, disk,
          output_format, cli>>

Self ==
    [ data |-> data, variant |-> variant, file |-> file, metadata |-> metadata,
      raw_data |-> raw_data, is_loaded |-> is_loaded, is_parsed |-> is_parsed,
      is_validated |-> is_validated ]

Install(s) ==
    /\ variant' = s.variant
    /\ file' = s.file
    /\ metadata' = s.metadata
    /\ data' = s.data
    /\ raw_data' = s.raw_data
    /\ is_loaded' = s.is_loaded
    /\ is_parsed' = s.is_parsed
    /\ is_validated' = s.is_validated

Call(op, arg, skip, out, steps, result) ==
    [out |-> out, steps |-> steps, arg |-> arg, op |-> op, skip |-> skip,
     result |-> result]

\* the caller makes the call r and sees its outcome; `returns` tells whether
\* the method returns {'metadata', 'data'}
Apply(op, arg, skip, returns, r) ==
    /\ Install(r.s)
    /\ last' = Call(op, arg, skip, r.out, r.steps,
                    IF returns /\ r.out.kind = "ok" THEN Result(r.s) ELSE None)
    /\ pre' = Self
    /\ UNCHANGED <<input, parser_map, standardized, disk, output_format, cli>>

\* a parser just constructed on the file f
Fresh(v, f) ==
    /\ variant = v
    /\ file = f
    /\ metadata = NewParser(v, f).metadata
    /\ data = None
    /\ raw_data = None
    /\ is_loaded = FALSE
    /\ is_parsed = FALSE
    /\ is_validated = FALSE
    /\ last = Call("init", None, FALSE, Ok, << >>, None)
    /\ pre = NewParser(v, f)
    /\ parser_map = << [tag |-> "electrical", class |-> "ElecParser"],
                       [tag |-> "seismic", class |-> "SeismicParser"],
                       [tag |-> "radar", class |-> "RadarParser"] >>
    /\ standardized = None
    /\ disk = {}
    /\ output_format = None
    /\ cli = [steps |-> << >>, pc |-> "start", qc_result |-> None, exit_code |-> None]

Init == \E v \in Variants : \E f \in Files(v) : Fresh(v, f) /\ input = None

Load == Apply("load", None, FALSE, FALSE, load(Self))

Parse == Apply("parse", None, FALSE, TRUE, parse(Self))

Validate == Apply("validate", None, FALSE, FALSE, validate(Self, None))

\* validate(data) with a table of the caller's: the required columns or the
\* first of them alone and no row, or one row that is in or out of range
ValidateTable ==
    \E t \in {Table(h, << >>) : h \in {required(variant), <<required(variant)[1]>>}}
              \cup {Table(required(variant),
                          <<[i \in 1..Len(required(variant)) |->
                                IF required(variant)[i] \in {"station_id", "trace_number"}
                                THEN Text(1) ELSE Num(n)]>>) : n \in {Unit, -Unit}} :
        Apply("validate", Some(t), FALSE, FALSE, validate(Self, Some(t)))

Process ==
    \E skip_validation \in BOOLEAN :
        Apply("process", None, skip_validation, TRUE, process(Self, skip_validation))

Next == Load \/ Parse \/ Validate \/ ValidateTable \/ Process

Spec == Init /\ [][Next]_vars

\* validate(data) applied to each table of each family
InitValidate ==
    \E v \in Variants : \E t \in UNION {TablesOf(sh) : sh \in Shapes(v)} :
        Fresh(v, SampleFile(v)) /\ input = Some(t)

ValidateInput ==
    /\ input # None
    /\ Apply("validate", input, FALSE, FALSE, validate(Self, input))

SpecValidate == InitValidate /\ [][ValidateInput]_vars

\* parse() applied to files whose headers spell alias names in each letter case
\* the spellings of one name: lower case, capitalised, upper case
Spellings(n, t, u) == <<n, t, u>>

\* the alias names of the variant's alias table, in the three spellings of each
AliasSpellings(v) ==
    CASE v = "electrical" ->
           { Spellings("station", "Station", "STATION"),
             Spellings("depth", "Depth", "DEPTH"),
             Spellings("resistance", "Resistance", "RESISTANCE"),
             Spellings("resistivity", "Resistivity", "RESISTIVITY"),
             Spellings("current", "Current", "CURRENT"),
             Spellings("voltage", "Voltage", "VOLTAGE") }
      [] v = "seismic" ->
           { Spellings("trace", "Trace", "TRACE"),
             Spellings("time", "Time", "TIME"),
             Spellings("amp", "Amp", "AMP"),
             Spellings("amplitude", "Amplitude", "AMPLITUDE"),
             Spellings("station", "Station", "STATION"),
             Spellings("offset", "Offset", "OFFSET") }
      [] v = "radar" ->
           { Spellings("trace", "Trace", "TRACE"),
             Spellings("sample", "Sample", "SAMPLE"),
             Spellings("amp", "Amp", "AMP"),
             Spellings("amplitude", "Amplitude", "AMPLITUDE"),
             Spellings("distance", "Distance", "DISTANCE"),
             Spellings("time", "Time", "TIME"),
             Spellings("frequency", "Frequency", "FREQUENCY"),
             Spellings("freq", "Freq", "FREQ"),
             Spellings("antenna_frequency", "Antenna_frequency", "ANTENNA_FREQUENCY") }

AliasNames(v) == UNION {SeqToSet(sp) : sp \in AliasSpellings(v)}

\* str.lower() on the names in use; col1 is lower case already
Lower(v, n) ==
    IF n \in AliasNames(v) THEN (CHOOSE sp \in AliasSpellings(v) : n \in SeqToSet(sp))[1]
    ELSE n

\* one alias column, alone or followed by a column that matches no alias
AliasHeaders(v) == {<<n>> : n \in AliasNames(v)} \cup {<<n, "col1">> : n \in AliasNames(v)}

InitAlias ==
    \E v \in Variants : \E h \in AliasHeaders(v) :
        \E ks \in SeqsUpTo({"good", "bad", "empty"}, MaxRows) :
            /\ Fresh(v, File(TRUE, RawText(h, [i \in 1..Len(ks) |-> MkRow(h, ks[i])])))
            /\ input = None

NextAlias == Load \/ Parse

SpecAlias == InitAlias /\ [][NextAlias]_vars

\* --------------------------------------------------------------- QCChecker
\* a message of a check: the check it comes from, what it counted and the
\* per-column detail it lists
Finding(chk, count, detail) == [count |-> count, detail |-> detail, check |-> chk]

\* what a _check_* method returns; a key it leaves out reads as false
CheckResult(has_issues, has_warnings, message) ==
    [has_issues |-> has_issues, has_warnings |-> has_warnings, message |-> message]

\* the cells of column position j, top to bottom
Column(df, j) == [r \in 1..Len(df.rows) |-> df.rows[r][j]]

\* dtype of column position j: object when it holds a str (or the frame has
\* no rows, as read_csv leaves it), a number dtype otherwise
IsObject(df, j) == Len(df.rows) = 0 \/ \E r \in 1..Len(df.rows) : IsStr(df.rows[r][j])

\* df.select_dtypes(include=[np.number]).columns, as column positions
numeric_cols(df) == {j \in 1..Len(df.cols) : ~IsObject(df, j)}

\* df.isnull().sum() of column position j
missing(df, j) == Cardinality({r \in 1..Len(df.rows) : df.rows[r][j].k = "null"})

\* the threshold as it would be with >= in place of >
missing_at_or_over(count, total_values) == count * 100 >= 10 * total_values

\* missing_pct > 10 where missing_pct = (count / total_values) * 100; in
\* double precision the comparison agrees with the exact one for every
\* frame of up to 400 cells
missing_over(count, total_values) == count * 100 > 10 * total_values

\* missing_cols = missing[missing > 0], as column positions in frame order;
\* total_missing = missing_cols.sum().  A message is built when some column
\* has a missing value; it is an issue over the threshold and a warning
\* otherwise.
_check_missing_values(df) ==
    LET missing_cols == SelectSeq([j \in 1..Len(df.cols) |-> j], LAMBDA j : missing(df, j) > 0)
        total_missing ==
            Cardinality({ri \in (1..Len(df.rows)) \X (1..Len(df.cols)) :
                            CellAt(df, ri).k = "null"})
    IN  IF Len(missing_cols) > 0
        THEN CheckResult(missing_over(total_missing, Len(df.rows) * Len(df.cols)),
                         ~missing_over(total_missing, Len(df.rows) * Len(df.cols)),
                         Finding("missing_values", total_missing,
                                 [i \in 1..Len(missing_cols) |->
                                     [count |-> missing(df, missing_cols[i]),
                                      col |-> df.cols[missing_cols[i]]]]))
        ELSE CheckResult(FALSE, FALSE, Finding("missing_values", 0, << >>))

\* duplicates = df.duplicated().sum(): rows equal to an earlier row (NaN
\* equal to NaN); if duplicates > 0: dup_pct = (duplicates / len(df)) * 100;
\* has_issues when dup_pct > 5, has_warnings otherwise (in double precision
\* the comparison agrees with the exact one for every frame of up to 400 rows)
_check_duplicates(df) ==
    LET duplicates ==
            Cardinality({r \in 1..Len(df.rows) : \E q \in 1..(r - 1) : df.rows[q] = df.rows[r]})
    IN  IF duplicates > 0
        THEN CheckResult(duplicates * 100 > 5 * Len(df.rows),
                         ~(duplicates * 100 > 5 * Len(df.rows)),
                         Finding("duplicates", duplicates, << >>))
        ELSE CheckResult(FALSE, FALSE, Finding("duplicates", 0, << >>))

\* the non-null numbers of a numeric column
Values(col) == SelectSeq(col, LAMBDA cell : cell.k = "num")

\* outlier_info holds the numeric columns with an outlier, in frame order.
\* Q1 and Q3 are Series.quantile(0.25) and (0.75), here four times their
\* value: linear interpolation at the fractional position q(n-1)/4 between
\* the values in sorted order (the values of the tables are whole numbers,
\* for which the interpolation is exact in double precision).  outliers is
\* ((x < Q1 - 1.5 * IQR) | (x > Q3 + 1.5 * IQR)).sum(), on a scale of eight;
\* the quantiles of no value are NaN and nothing compares outside them.
_check_outliers(df) ==
    LET Kth(vals, k) ==
            CHOOSE x \in {vals[i].v : i \in 1..Len(vals)} :
                /\ Cardinality({i \in 1..Len(vals) : vals[i].v < x}) < k
                /\ Cardinality({i \in 1..Len(vals) : vals[i].v <= x}) >= k
        quantile(vals, q) ==
            LET lo == (q * (Len(vals) - 1)) \div 4
                r == (q * (Len(vals) - 1)) % 4
            IN  IF r = 0 THEN 4 * Kth(vals, lo + 1)
                ELSE 4 * Kth(vals, lo + 1) + r * (Kth(vals, lo + 2) - Kth(vals, lo + 1))
        outside(vals, Q1, Q3) ==
            Cardinality({i \in 1..Len(vals) :
                \/ 8 * vals[i].v < 2 * Q1 - 3 * (Q3 - Q1)
                \/ 8 * vals[i].v > 2 * Q3 + 3 * (Q3 - Q1)})
        outliers(vals) ==
            IF Len(vals) = 0 THEN 0 ELSE outside(vals, quantile(vals, 1), quantile(vals, 3))
        cols == SelectSeq([j \in 1..Len(df.cols) |-> j],
                          LAMBDA j : j \in numeric_cols(df) /\ outliers(Values(Column(df, j))) > 0)
    IN  IF Len(cols) > 0
        THEN CheckResult(FALSE, TRUE,
                 Finding("outliers", Len(cols),
                         [i \in 1..Len(cols) |->
                             [count |-> outliers(Values(Column(df, cols[i]))),
                              col |-> df.cols[cols[i]]]]))
        ELSE CheckResult(FALSE, FALSE, Finding("outliers", 0, << >>))

\* the zero-variance warnings first, then the object-column warnings: a
\* numeric column with df[col].std() == 0 (at least two values, all
\* identical); an object column on which pd.to_numeric(df[col]) succeeds,
\* that is, with no text other than numerals
_check_consistency(df) ==
    LET zero_variance(vals) == Len(vals) >= 2 /\ \A i \in 1..Len(vals) : vals[i] = vals[1]
        consistency_kind(j) ==
            IF j \in numeric_cols(df)
            THEN IF zero_variance(Values(Column(df, j))) THEN "zero_variance" ELSE ""
            ELSE IF \A r \in 1..Len(df.rows) : df.rows[r][j].k # "text"
                 THEN "object_numeric" ELSE ""
        of_kind(kind) == SelectSeq([j \in 1..Len(df.cols) |-> j],
                                   LAMBDA j : consistency_kind(j) = kind)
        warnings == [i \in 1..Len(of_kind("zero_variance")) |->
                        [kind |-> "zero_variance", col |-> df.cols[of_kind("zero_variance")[i]]]]
                    \o [i \in 1..Len(of_kind("object_numeric")) |->
                        [kind |-> "object_numeric", col |-> df.cols[of_kind("object_numeric")[i]]]]
    IN  IF Len(warnings) > 0
        THEN CheckResult(FALSE, TRUE, Finding("consistency", Len(warnings), warnings))
        ELSE CheckResult(FALSE, FALSE, Finding("consistency", 0, << >>))

\* what check() raises on a frame with a duplicated label.  In
\* _check_outliers df[col] is then a frame: its quantile raises TypeError
\* when one of the columns is not numeric, and `if outliers > 0` on the
\* Series of its sums raises ValueError.  In _check_consistency a frame has
\* no dtype (AttributeError).
check_raises(df) ==
    IF \E j \in numeric_cols(df) : \E i \in ColIdx(df, df.cols[j]) : IsObject(df, i)
    THEN Outcome("TypeError", "quantile", << >>, 0)
    ELSE IF \E j \in numeric_cols(df) : IsFrame(df, df.cols[j])
    THEN Outcome("ValueError", "ambiguous", << >>, 0)
    ELSE IF \E j \in 1..Len(df.cols) : IsFrame(df, df.cols[j])
    THEN Outcome("AttributeError", "consistency", << >>, 0)
    ELSE Ok

\* passed as it would be if warnings counted against it
passed_without_warnings(issues, warnings) == Len(issues) = 0 /\ Len(warnings) = 0

\* passed = len(issues) == 0
passed(issues, warnings) == Len(issues) = 0

\* the result dict of check(), with the issues and warnings lists as check()
\* fills them: a duplicates result is appended to issues only
aggregate(df, missing_result, dup_result, out_result, cons_result) ==
    LET AppendIf(list, cond, message) == IF cond THEN Append(list, message) ELSE list
        issues ==
            AppendIf(AppendIf(<< >>, missing_result.has_issues, missing_result.message),
                     dup_result.has_issues, dup_result.message)
        warnings ==
            AppendIf(AppendIf(AppendIf(<< >>,
                         ~missing_result.has_issues /\ missing_result.has_warnings,
                         missing_result.message),
                     out_result.has_warnings, out_result.message),
                     cons_result.has_warnings, cons_result.message)
    IN  [ warnings   |-> warnings,
          issues     |-> issues,
          passed     |-> passed(issues, warnings),
          checks_run |-> <<"missing_values", "duplicates", "outliers", "consistency">>,
          summary    |-> [ total_records  |-> Len(df.rows),
                           total_columns  |-> Len(df.cols),
                           issues_found   |-> Len(issues),
                           warnings_found |-> Len(warnings) ] ]

\* QCChecker.check(parsed_data): the outcome and, when it returns, the result
check(df) ==
    IF check_raises(df).kind # "ok" THEN [out |-> check_raises(df), result |-> None]
    ELSE [out |-> Ok,
          result |-> Some(aggregate(df, _check_missing_values(df), _check_duplicates(df),
                                    _check_outliers(df), _check_consistency(df)))]

\* tables handed to QCChecker.check
\* n distinct rows (numbered in the first of c columns), the first m of them
\* null in the last column, then d copies of the last row; with a spike the
\* last distinct row holds 100.0 where the others hold 1.0
InitQC ==
    \E t \in {x \in
    { Table(SubSeq(<<"trace_number", "amplitude">>, 1, c),
            [i \in 1..(n + d) |->
                [j \in 1..c |->
                    IF j = c /\ Min({i, n}) <= m THEN Null
                    ELSE IF j = 1 THEN Num(Min({i, n}) * Unit)
                    ELSE IF spike /\ i >= n THEN Num(100 * Unit) ELSE Num(Unit)]]) :
        c \in 1..2, n \in 1..MaxQCRows, d \in 0..2, m \in 0..2, spike \in BOOLEAN }
    \* tables with text, numerals held as strings, and duplicated labels
    \cup
    { Table(<<"station_id", "depth_m">>, <<<<Text(1), Num(Unit)>>, <<Text(1), Num(Unit)>>>>),
      Table(<<"station_id", "depth_m">>, <<<<Text(1), Null>>, <<Text(2), Num(Unit)>>>>),
      Table(<<"depth_m">>, <<<<NumStr(Unit)>>, <<NumStr(2 * Unit)>>>>),
      Table(<<"depth_m", "depth_m">>, <<<<Num(Unit), Num(Unit)>>>>),
      Table(<<"depth_m", "depth_m">>, <<<<Num(Unit), Text(1)>>>>),
      Table(<<"station_id", "station_id">>, <<<<Text(1), Text(2)>>>>),
      Table(<<"station_id", "depth_m">>, << >>),
      Table(<<"trace_number", "amplitude", "depth_m">>,
            [i \in 1..6 |-> <<Num(i * Unit), Num(IF i = 6 THEN 100 * Unit ELSE Unit), Num(Unit)>>]) } :
        Len(x.rows) <= MaxQCRows} :
        Fresh("electrical", SampleFile("electrical")) /\ input = Some(t)

\* the caller sees what check() returned or raised; the parser is not involved
Returned(op, arg, r) ==
    /\ last' = Call(op, arg, FALSE, r.out, << >>, r.result)
    /\ pre' = Self
    /\ UNCHANGED <<variant, file, metadata, data, raw_data, is_loaded, is_parsed,
                   is_validated, input, parser_map, standardized, disk, output_format, cli>>

Check == input # None /\ Returned("check", input, check(input[1]))

SpecQC == InitQC /\ [][Check]_vars

\* ------------------------------------------------------------ Standardizer
\* the column names in use, in the order Python compares strings (by code
\* point: upper case before "_" before lower case)
NameOrder ==
    << "AMP", "AMPLITUDE", "ANTENNA_FREQUENCY", "Amp", "Amplitude",
       "Antenna_frequency", "CURRENT", "Current", "DEPTH", "DISTANCE",
       "Depth", "Distance", "FREQ", "FREQUENCY", "Freq", "Frequency",
       "OFFSET", "Offset", "RESISTANCE", "RESISTIVITY", "Resistance",
       "Resistivity", "SAMPLE", "STATION", "Sample", "Station", "TIME",
       "TRACE", "Time", "Trace", "VOLTAGE", "Voltage", "amp", "amplitude",
       "antenna_freq_mhz", "antenna_frequency", "col1", "col2", "current",
       "current_ma", "depth", "depth_m", "distance", "distance_m", "freq",
       "frequency", "offset", "offset_m", "resistance", "resistivity",
       "resistivity_ohm_m", "sample", "sample_number", "station",
       "station_id", "time", "time_ms", "time_ns", "trace", "trace_number",
       "voltage", "voltage_mv" >>

Rank(name) == CHOOSE i \in 1..Len(NameOrder) : NameOrder[i] = name

\* the columns as they would be if left in input order
unsorted(cols) == cols

\* sorted(df.columns) of distinct labels
sorted(cols) ==
    [i \in 1..Len(cols) |->
        CHOOSE c \in SeqToSet(cols) :
            Cardinality({x \in SeqToSet(cols) : Rank(x) < Rank(c)}) = i - 1]

\* _apply_common_standards on a frame with distinct labels:
\* df.reindex(sorted(df.columns), axis=1) picks the columns by label, then
\* df.dropna(how='all').reset_index(drop=True) drops the rows with no value
_apply_common_standards(df) ==
    Table(sorted(df.cols),
          SelectSeq([r \in 1..Len(df.rows) |->
                        [i \in 1..Len(df.cols) |->
                            df.rows[r][CHOOSE j \in 1..Len(df.cols) :
                                           df.cols[j] = sorted(df.cols)[i]]]],
                    LAMBDA row : ~\A j \in 1..Len(row) : row[j].k = "null"))

\* the columns the variant's step converts to str and to numbers
str_columns(type_tag) == IF type_tag = "electrical" THEN {"station_id"} ELSE {}

numeric_columns(type_tag) ==
    CASE type_tag = "electrical" -> {"depth_m", "resistivity_ohm_m"}
      [] type_tag = "seismic" -> {"trace_number", "time_ms", "amplitude"}
      [] type_tag = "radar" -> {"trace_number", "sample_number", "amplitude"}
      [] OTHER -> {}

\* _standardize_electrical / _standardize_seismic / _standardize_radar, cell
\* by cell.  astype(str) turns a number into its numeral and NaN into the
\* string "nan"; pd.to_numeric(errors='coerce') turns numerals into numbers
\* and other strings (and "nan") into NaN.
_standardize_variant(df, type_tag) ==
    Table(df.cols,
          [r \in 1..Len(df.rows) |->
              [j \in 1..Len(df.cols) |->
                  IF df.cols[j] \in str_columns(type_tag)
                  THEN IF df.rows[r][j].k = "num" THEN NumStr(df.rows[r][j].v)
                       ELSE IF df.rows[r][j].k = "null" THEN [k |-> "nan_str", v |-> 0]
                       ELSE df.rows[r][j]
                  ELSE IF df.cols[j] \in numeric_columns(type_tag)
                  THEN IF df.rows[r][j].k = "str" THEN Num(df.rows[r][j].v)
                       ELSE IF df.rows[r][j].k \in {"text", "nan_str"} THEN Null
                       ELSE df.rows[r][j]
                  ELSE df.rows[r][j]]])

\* the metadata as it would be if only the new keys were kept
stamp_only(metadata_copy, type_tag) ==
    [key \in {"standardized_at", "standardization_version", "data_type"} |-> MStr(type_tag)]

\* the three keys standardize() writes into its copy of the metadata
stamp(metadata_copy, type_tag) ==
    [key \in {"standardized_at", "standardization_version", "data_type"} |->
        CASE key = "standardized_at" -> MStr("standardized_at")
          [] key = "standardization_version" -> MStr("1.0")
          [] key = "data_type" -> MStr(type_tag)]
    @@ metadata_copy

Dataset(md, df) == [data |-> df, metadata |-> md]

\* df.reindex raises ValueError on an axis with duplicate labels
HasDuplicateLabels(df) == Cardinality(SeqToSet(df.cols)) < Len(df.cols)

\* standardize(parsed_data, type_tag): the outcome and, when it returns,
\* the dataset
standardize(parsed_data, type_tag) ==
    IF HasDuplicateLabels(parsed_data.data)
    THEN [out |-> Outcome("ValueError", "duplicate_labels", << >>, 0), result |-> None]
    ELSE [out |-> Ok,
          result |-> Some(Dataset(stamp(parsed_data.metadata, type_tag),
                                  _standardize_variant(
                                      _apply_common_standards(parsed_data.data),
                                      type_tag)))]

\* the assignment as it would be without .copy(): the same object
same_object(object) == object

\* dict.copy(): a new dict object holding the same values
copy(object) == "copy"

\* tables handed to standardize
InitStandardize ==
    \E v \in Variants : \E t \in UNION {TablesOf(sh) : sh \in
        { Shape(<<"time_ms", "amplitude">>,
                <<{Null, Num(Unit), Text(2), NumStr(Unit)}, {Null, Num(Unit), Text(2)}>>),
          Shape(<<"resistivity_ohm_m", "depth_m">>,
                <<{Null, Num(Unit), Text(2)}, {Null, Num(2 * Unit), NumStr(Unit)}>>),
          Shape(<<"station_id", "sample_number", "Depth">>,
                <<{Null, Text(1)}, {Null, Text(2)}, {Null, Num(Unit)}>>),
          Shape(<<"trace_number", "col1", "amplitude">>,
                <<{Null, Num(Unit)}, {Null, Text(1)}, {Null, Num(Unit), Num(2 * Unit)}>>),
          Shape(<<"depth_m", "depth_m">>, <<{Num(Unit)}, {Num(Unit)}>>) }} :
        Fresh(v, SampleFile(v)) /\ input = Some(t)

\* The caller sees what standardize() returned or raised.  It holds the
\* dataset and, for the dict and the frame, whether they are the parser's own
\* objects or private ones (reindex() already yields a new frame); the three
\* keys are written into whichever dict object metadata_object is.
Standardizes(arg, type_tag, metadata_object, r) ==
    /\ last' = Call("standardize", arg, FALSE, r.out, << >>, r.result)
    /\ pre' = Self
    /\ standardized' = IF r.result = None THEN None
                       ELSE Some([metadata_object |-> metadata_object,
                                  dataset |-> r.result[1],
                                  data_object |-> "copy"])
    /\ metadata' = IF r.result # None /\ metadata_object = "parser"
                   THEN stamp(metadata, type_tag) ELSE metadata
    /\ UNCHANGED <<variant, file, data, raw_data, is_loaded, is_parsed,
                   is_validated, input, parser_map, disk, output_format, cli>>

\* standardize({'metadata': parser.metadata, 'data': table}, tag)
StandardizeInput ==
    /\ input # None
    /\ Standardizes(input, variant, copy("parser"),
                    standardize(Dataset(metadata, input[1]), variant))

\* standardize(result, tag) on the dataset the previous call returned
StandardizeAgain ==
    /\ standardized # None
    /\ Standardizes(Some(standardized[1].dataset.data), variant, copy("result"),
                    standardize(standardized[1].dataset, variant))

NextStandardize == StandardizeInput \/ StandardizeAgain

SpecStandardize == InitStandardize /\ [][NextStandardize]_vars

\* ------------------------------------------------ the stages on one parser
\* source files of at most one data line
InitPipeline ==
    \E v \in Variants : \E f \in {x \in Files(v) : Len(x.text.rows) <= 1} :
        Fresh(v, f) /\ input = None

\* QCChecker.check on the dataset parse() returned
CheckParsed == is_parsed /\ Returned("check", data, check(data[1]))

\* standardize on the dataset parse() returned, whose dict and frame are the
\* parser's own objects
StandardizeParsed ==
    /\ is_parsed
    /\ Standardizes(data, variant, copy("parser"),
                    standardize(Dataset(metadata, data[1]), variant))

\* the caller's later changes to what standardize() returned: a key set in
\* the dict, every row dropped from the frame in place; a change made through
\* an object reaches every holder of that object
ChangeReturned ==
    /\ standardized # None
    /\ \E what \in {"metadata", "data"} :
          /\ standardized' =
                Some(IF what = "metadata"
                     THEN [standardized[1] EXCEPT
                              !.dataset.metadata = [key \in {"note"} |-> MStr("note")] @@ @]
                     ELSE [standardized[1] EXCEPT !.dataset.data = Table(@.cols, << >>)])
          /\ metadata' = IF what = "metadata" /\ standardized[1].metadata_object = "parser"
                         THEN [key \in {"note"} |-> MStr("note")] @@ metadata ELSE metadata
          /\ data' = IF what = "data" /\ standardized[1].data_object = "parser"
                     THEN Some(Table(data[1].cols, << >>)) ELSE data
    /\ last' = Call("change", None, FALSE, Ok, << >>, None)
    /\ pre' = Self
    /\ UNCHANGED <<variant, file, raw_data, is_loaded, is_parsed, is_validated,
                   input, parser_map, disk, output_format, cli>>

NextPipeline ==
    Load \/ Parse \/ Validate \/ Process \/ CheckParsed \/ StandardizeParsed \/ ChangeReturned

SpecPipeline == InitPipeline /\ [][NextPipeline]_vars

\* ------------------------------------------------------------ write_output
\* self._supported_formats
_supported_formats == {"csv", "json", "excel", "parquet"}

Raises(kind, why) == Outcome(kind, why, << >>, 0)

\* Standardizer(output_format): the instance's format, or the error raised
Standardizer(fmt) ==
    IF fmt \notin _supported_formats
    THEN [out |-> Raises("ValueError", "unsupported_format"), output_format |-> None]
    ELSE [out |-> Ok, output_format |-> Some(fmt)]

\* a file on disk: complete, or left partly written by a writer that raised
Written(name, complete) == [file |-> name, complete |-> complete]

\* what a call did to the disk and how it ended
Wrote(files, out) == [out |-> out, disk |-> files]

\* df.to_csv / to_json / to_excel / to_parquet: to_json(orient='records') and
\* to_parquet reject duplicated labels with ValueError before anything is
\* written; the file system may refuse the file (OSError before any byte) or
\* fail part-way (OSError, partial file)
write_data(files, fmt, df, writer) ==
    IF fmt \in {"json", "parquet"} /\ HasDuplicateLabels(df)
    THEN Wrote(files, Raises("ValueError", "duplicate_labels"))
    ELSE IF writer = "refused" THEN Wrote(files, Raises("OSError", "open"))
    ELSE IF writer = "broken"
         THEN Wrote(files \cup {Written("data", FALSE)}, Raises("OSError", "write"))
    ELSE Wrote(files \cup {Written("data", TRUE)}, Ok)

\* if include_metadata and data.get('metadata'): an empty dict is skipped;
\* with open(metadata_path, 'w') as f: json.dump(metadata_json, f, indent=2).
\* json.dump accepts str, int, None and the (min, max) tuples once
\* convert_numpy_types has unwrapped them; a Series is returned unconverted
\* and is rejected with TypeError
write_metadata(files, include_metadata, md) ==
    IF ~(include_metadata /\ DOMAIN md # {}) THEN Wrote(files, Ok)
    ELSE IF \A key \in DOMAIN md : md[key].t # "series"
         THEN Wrote(files \cup {Written("sidecar", TRUE)}, Ok)
    ELSE Wrote(files \cup {Written("sidecar", FALSE)}, Raises("TypeError", "not_serializable"))

\* write_output(data, output_path, include_metadata) on a Standardizer of
\* the given format; mkdir raises OSError when the parent cannot be created;
\* nothing more is done once the data writer raised
write_output(files, fmt, req) ==
    IF ~req.dir_ok THEN Wrote(files, Raises("OSError", "mkdir"))
    ELSE IF write_data(files \cup {Written("dir", TRUE)}, fmt, req.data.data, req.writer).out.kind # "ok"
         THEN write_data(files \cup {Written("dir", TRUE)}, fmt, req.data.data, req.writer)
    ELSE write_metadata(
             write_data(files \cup {Written("dir", TRUE)}, fmt, req.data.data, req.writer).disk,
             req.include_metadata, req.data.metadata)

\* requests: a format, supported or not; a dataset whose metadata is empty,
\* standardized, or standardized and holding a Series, and whose table has
\* distinct or duplicated labels; what the file system does
InitWrite ==
    \E req \in
    [ data : {Dataset(md, df) :
                 md \in { [key \in {} |-> MV("none", "", Null, Null)],
                          stamp(NewParser("radar", SampleFile("radar")).metadata, "radar"),
                          [key \in {"traces"} |-> MV("series", "", Null, Null)]
                              @@ stamp(NewParser("radar", SampleFile("radar")).metadata, "radar") },
                 df \in { Table(<<"amplitude", "trace_number">>, <<<<Num(Unit), Num(Unit)>>>>),
                          Table(<<"amplitude", "amplitude">>, <<<<Num(Unit), Num(Unit)>>>>) }},
      writer : {"ok", "refused", "broken"},
      include_metadata : BOOLEAN,
      dir_ok : BOOLEAN,
      format : _supported_formats \cup {"xml"} ] :
        Fresh("radar", SampleFile("radar")) /\ input = Some(req)

\* the caller constructs the Standardizer
Construct ==
    /\ input # None
    /\ output_format = None
    /\ output_format' = Standardizer(input[1].format).output_format
    /\ last' = Call("Standardizer", input, FALSE, Standardizer(input[1].format).out, << >>, None)
    /\ pre' = Self
    /\ UNCHANGED <<variant, file, metadata, data, raw_data, is_loaded, is_parsed,
                   is_validated, input, parser_map, standardized, disk, cli>>

\* the caller writes the dataset with the Standardizer it constructed
WriteOutput ==
    /\ input # None
    /\ output_format # None
    /\ disk' = write_output(disk, output_format[1], input[1]).disk
    /\ last' = Call("write_output", input, FALSE,
                    write_output(disk, output_format[1], input[1]).out, << >>, None)
    /\ pre' = Self
    /\ UNCHANGED <<variant, file, metadata, data, raw_data, is_loaded, is_parsed,
                   is_validated, input, parser_map, standardized, output_format, cli>>

NextWrite == Construct \/ WriteOutput

SpecWrite == InitWrite /\ [][NextWrite]_vars

\* -------------------------------------------------------------- Dispatcher
\* the type tags and file extensions in use, each in lower case, capitalised
\* and upper case
TagSpellings ==
    { Spellings("electrical", "Electrical", "ELECTRICAL"),
      Spellings("seismic", "Seismic", "SEISMIC"),
      Spellings("radar", "Radar", "RADAR"),
      Spellings("custom", "Custom", "CUSTOM"),
      Spellings("magnetic", "Magnetic", "MAGNETIC") }

ExtSpellings ==
    { Spellings("dat", "Dat", "DAT"), Spellings("txt", "Txt", "TXT"),
      Spellings("csv", "Csv", "CSV"), Spellings("sgy", "Sgy", "SGY"),
      Spellings("segy", "Segy", "SEGY"), Spellings("dzt", "Dzt", "DZT"),
      Spellings("rd3", "Rd3", "RD3"), Spellings("json", "Json", "JSON") }

\* the string as it would be used without lower()
as_given(text) == text

\* str.lower() on the tags and extensions in use
lower(text) ==
    IF \E sp \in TagSpellings \cup ExtSpellings : text \in SeqToSet(sp)
    THEN (CHOOSE sp \in TagSpellings \cup ExtSpellings : text \in SeqToSet(sp))[1]
    ELSE text

\* dict operations on a list of entries kept in insertion order
keys(map) == [i \in 1..Len(map) |-> map[i].tag]

has_key(map, tag) == \E i \in 1..Len(map) : map[i].tag = tag

item(map, tag) == map[CHOOSE i \in 1..Len(map) : map[i].tag = tag].class

VariantOf(class) ==
    CASE class = "ElecParser" -> "electrical"
      [] class = "SeismicParser" -> "seismic"
      [] class = "RadarParser" -> "radar"
      [] OTHER -> "custom"

\* what get_parser hands back: the class, or the instance it constructed
Got(out, class, parser) == [out |-> out, class |-> class, parser |-> parser]

\* the methods marked @abstractmethod that the class does not override:
\* BaseParser itself, a subclass with an empty body, a subclass that
\* overrides load and parse only
abstractmethods(class) ==
    CASE class \in {"BaseParser", "IncompleteParser"} -> {"load", "parse", "validate"}
      [] class = "PartialParser" -> {"validate"}
      [] OTHER -> {}

\* the constructor as it would be without the call of _validate_file_path()
construct_unchecked(class, source) ==
    IF abstractmethods(class) # {} THEN Got(Raises("TypeError", "abstract"), None, None)
    ELSE Got(Ok, Some(class), Some(NewParser(VariantOf(class), source.file)))

\* the constructor as it would be if the path were checked before the class
construct_path_first(class, source) ==
    IF source.kind = "missing" THEN Got(Raises("FileNotFoundError", "not_found"), None, None)
    ELSE IF source.kind = "directory" THEN Got(ParserError("not_a_file"), None, None)
    ELSE IF source.kind = "empty_file" THEN Got(ParserError("empty_file"), None, None)
    ELSE IF abstractmethods(class) # {} THEN Got(Raises("TypeError", "abstract"), None, None)
    ELSE Got(Ok, Some(class), Some(NewParser(VariantOf(class), source.file)))

\* parser_class(file_path): a class with abstract methods left cannot be
\* instantiated (TypeError, before __init__ runs); __init__ ends with
\* _validate_file_path(); the path names a non-empty file, nothing, a
\* zero-byte file or a directory
construct(class, source) ==
    IF abstractmethods(class) # {} THEN Got(Raises("TypeError", "abstract"), None, None)
    ELSE IF source.kind = "missing" THEN Got(Raises("FileNotFoundError", "not_found"), None, None)
    ELSE IF source.kind = "directory" THEN Got(ParserError("not_a_file"), None, None)
    ELSE IF source.kind = "empty_file" THEN Got(ParserError("empty_file"), None, None)
    ELSE Got(Ok, Some(class), Some(NewParser(VariantOf(class), source.file)))

\* Dispatcher.get_parser(data_type, file_path); `if file_path:` an absent or
\* empty path returns the class itself
get_parser(map, type_tag, file_path) ==
    IF ~has_key(map, lower(type_tag))
    THEN Got(Outcome("ParserError", "unknown_type", keys(map), 0), None, None)
    ELSE IF file_path # None /\ file_path[1].kind # "empty_string"
         THEN construct(item(map, lower(type_tag)), file_path[1])
    ELSE Got(Ok, Some(item(map, lower(type_tag))), None)

\* the mapping as it would be without the .segy entry
extension_map_without_segy ==
    << [tag |-> "dat", class |-> "electrical"], [tag |-> "txt", class |-> "electrical"],
       [tag |-> "csv", class |-> "electrical"], [tag |-> "sgy", class |-> "seismic"],
       [tag |-> "dzt", class |-> "radar"], [tag |-> "rd3", class |-> "radar"] >>

\* extension_map of detect_type, keys without their leading dot
extension_map ==
    << [tag |-> "dat", class |-> "electrical"], [tag |-> "txt", class |-> "electrical"],
       [tag |-> "csv", class |-> "electrical"], [tag |-> "sgy", class |-> "seismic"],
       [tag |-> "segy", class |-> "seismic"], [tag |-> "dzt", class |-> "radar"],
       [tag |-> "rd3", class |-> "radar"] >>

\* Path.suffix of a file name given as its parts between dots: what follows
\* the last dot, unless the dot starts or ends the name
suffix(name) ==
    IF Len(name) >= 2 /\ name[Len(name)] # "" /\ (Len(name) > 2 \/ name[1] # "")
    THEN name[Len(name)] ELSE ""

\* Dispatcher.detect_type(file_path)
detect_type(name) ==
    IF has_key(extension_map, lower(suffix(name)))
    THEN [out |-> Ok, result |-> Some(item(extension_map, lower(suffix(name))))]
    ELSE [out |-> Outcome("ParserError", "unknown_extension", keys(extension_map), 0),
          result |-> None]

\* issubclass(parser_class, BaseParser): "object" is a class that is not a
\* parser; BaseParser is a subclass of itself
issubclass(class) == class # "object"

\* register_parser as it would be if it stored the tag as given
register_parser_as_given(map, type_tag, class) ==
    IF ~issubclass(class) THEN [out |-> Raises("TypeError", "not_a_parser"), map |-> map]
    ELSE IF has_key(map, type_tag)
         THEN [out |-> Ok,
               map |-> [i \in 1..Len(map) |->
                           IF map[i].tag = type_tag
                           THEN [tag |-> type_tag, class |-> class] ELSE map[i]]]
    ELSE [out |-> Ok, map |-> Append(map, [tag |-> type_tag, class |-> class])]

\* Dispatcher.register_parser(data_type, parser_class);
\* map[tag] = class: an existing key keeps its place
register_parser(map, type_tag, class) ==
    IF ~issubclass(class) THEN [out |-> Raises("TypeError", "not_a_parser"), map |-> map]
    ELSE IF has_key(map, lower(type_tag))
         THEN [out |-> Ok,
               map |-> [i \in 1..Len(map) |->
                           IF map[i].tag = lower(type_tag)
                           THEN [tag |-> lower(type_tag), class |-> class] ELSE map[i]]]
    ELSE [out |-> Ok, map |-> Append(map, [tag |-> lower(type_tag), class |-> class])]

InitDispatch == Fresh("electrical", SampleFile("electrical")) /\ input = None

\* get_parser on a tag in any spelling and a path that is absent, empty, or
\* names a file, nothing, a zero-byte file or a directory; the caller holds
\* the instance get_parser constructed
GetsParser(type_tag, file_path, r) ==
    /\ Install(IF r.parser = None THEN Self ELSE r.parser[1])
    /\ last' = Call("get_parser", Some([data_type |-> type_tag, file_path |-> file_path]),
                    FALSE, r.out, << >>, r.class)
    /\ pre' = Self
    /\ UNCHANGED <<input, parser_map, standardized, disk, output_format, cli>>

GetParser ==
    \E type_tag \in UNION {SeqToSet(sp) : sp \in TagSpellings} :
        \E file_path \in {None} \cup {Some([kind |-> kind, file |-> SampleFile("electrical")]) :
                kind \in {"file", "missing", "empty_file", "directory", "empty_string"}} :
            GetsParser(type_tag, file_path, get_parser(parser_map, type_tag, file_path))

\* detect_type on names given as their parts between dots
DetectType ==
    \E name \in {<<"survey">>, <<"survey", "">>}
                \cup UNION {{<<"survey", ext>>, <<"survey", "v2", ext>>, <<"", ext>>} :
                               ext \in UNION {SeqToSet(sp) : sp \in ExtSpellings}} :
        Returned("detect_type", Some(name), detect_type(name))

\* register_parser with a further subclass of BaseParser, a variant's class,
\* a class that is not a parser, BaseParser itself and subclasses that leave
\* methods abstract
RegisterParser ==
    \E type_tag \in {"custom", "Custom", "ELECTRICAL"} :
        \E class \in {"CustomParser", "SeismicParser", "object", "BaseParser",
                       "IncompleteParser", "PartialParser"} :
            /\ parser_map' = register_parser(parser_map, type_tag, class).map
            /\ last' = Call("register_parser",
                            Some([data_type |-> type_tag, class |-> class]),
                            FALSE, register_parser(parser_map, type_tag, class).out, << >>, None)
            /\ pre' = Self
            /\ UNCHANGED <<variant, file, metadata, data, raw_data, is_loaded, is_parsed,
                           is_validated, input, standardized, disk, output_format, cli>>

NextDispatch == GetParser \/ DetectType \/ RegisterParser

SpecDispatch == InitDispatch /\ [][NextDispatch]_vars

\* ------------------------------------------------------------------ main()
\* the command line (--type is the variant, --skip-qc, --format), what the
\* input path names and what the file system does to the writer
InitMain ==
    \E v \in Variants : \E source \in {"file", "missing", "empty_file", "directory"} :
        \E f \in IF source = "file" THEN Files(v) ELSE {SampleFile(v)} :
            \E skip_qc \in BOOLEAN, format \in {"csv", "json"}, writer \in {"ok", "broken"} :
                /\ Fresh(v, f)
                /\ input = Some([ writer |-> writer, format |-> format,
                                  source |-> source, skip_qc |-> skip_qc ])

\* main() as it would be if the exception handler returned 0
advance_returning_0(step, out, next, qc_result) ==
    cli' = [ steps |-> Append(cli.steps, step),
             pc |-> IF out.kind = "ok" THEN next ELSE "exit",
             qc_result |-> qc_result,
             exit_code |-> IF out.kind # "ok" \/ next = "exit" THEN Some(0) ELSE None ]

\* main() after a step: an exception leaves the try block for
\* `except Exception`, which returns 1; after the last step main returns 0
Advance(step, out, next, qc_result) ==
    cli' = [ steps |-> Append(cli.steps, step),
             pc |-> IF out.kind = "ok" THEN next ELSE "exit",
             qc_result |-> qc_result,
             exit_code |-> IF out.kind # "ok" THEN Some(1)
                           ELSE IF next = "exit" THEN Some(0) ELSE None ]

\* validate_input_file(input_path): sys.exit(1) unless the path names a
\* non-empty file
MainStart ==
    /\ cli.pc = "start"
    /\ input # None
    /\ cli' = IF input[1].source = "file" THEN [cli EXCEPT !.pc = "parse"]
              ELSE [cli EXCEPT !.pc = "exit", !.exit_code = Some(1)]
    /\ UNCHANGED <<variant, file, metadata, data, raw_data, is_loaded, is_parsed,
                   is_validated, input, last, pre, parser_map, standardized, disk,
                   output_format>>

\* Step 1: parser = dispatcher.get_parser(args.type, input_path);
\* parsed_data = parser.process(skip_validation=True)
MainParse ==
    /\ cli.pc = "parse"
    /\ LET got == get_parser(parser_map, variant, Some([kind |-> "file", file |-> file]))
           r == IF got.out.kind = "ok" THEN process(got.parser[1], TRUE)
                ELSE Run(Self, got.out, << >>)
       IN  /\ Install(r.s)
           /\ last' = Call("process", None, TRUE, r.out, r.steps,
                           IF r.out.kind = "ok" THEN Result(r.s) ELSE None)
           /\ Advance("parse", r.out, IF input[1].skip_qc THEN "validate" ELSE "qc", None)
    /\ pre' = Self
    /\ UNCHANGED <<input, parser_map, standardized, disk, output_format>>

\* Step 2, unless --skip-qc: qc_result = qc_checker.check(parsed_data); the
\* result is logged, whatever it is
MainQC ==
    /\ cli.pc = "qc"
    /\ last' = Call("check", data, FALSE, check(data[1]).out, << >>, check(data[1]).result)
    /\ Advance("qc", check(data[1]).out, "validate",
               IF check(data[1]).result = None THEN None
               ELSE Some(check(data[1]).result[1].passed))
    /\ pre' = Self
    /\ UNCHANGED <<variant, file, metadata, data, raw_data, is_loaded, is_parsed,
                   is_validated, input, parser_map, standardized, disk, output_format>>

\* Step 3: parser.validate()
MainValidate ==
    /\ cli.pc = "validate"
    /\ Install(validate(Self, None).s)
    /\ last' = Call("validate", None, FALSE, validate(Self, None).out, << >>, None)
    /\ Advance("validate", validate(Self, None).out, "standardize", cli.qc_result)
    /\ pre' = Self
    /\ UNCHANGED <<input, parser_map, standardized, disk, output_format>>

\* Step 4, first half: standardizer = Standardizer(output_format=args.format);
\* standardized_data = standardizer.standardize(parsed_data, args.type)
MainStandardize ==
    /\ cli.pc = "standardize"
    /\ LET st == Standardizer(input[1].format)
           r == standardize(Dataset(metadata, data[1]), variant)
           out == IF st.out.kind # "ok" THEN st.out ELSE r.out
       IN  /\ output_format' = st.output_format
           /\ standardized' = IF out.kind # "ok" THEN None
                              ELSE Some([metadata_object |-> copy("parser"),
                                         dataset |-> r.result[1],
                                         data_object |-> "copy"])
           /\ metadata' = IF out.kind = "ok" /\ copy("parser") = "parser"
                          THEN stamp(metadata, variant) ELSE metadata
           /\ last' = Call("standardize", data, FALSE, out, << >>,
                           IF out.kind = "ok" THEN r.result ELSE None)
           /\ Advance("standardize", out, "write", cli.qc_result)
    /\ pre' = Self
    /\ UNCHANGED <<variant, file, data, raw_data, is_loaded, is_parsed, is_validated,
                   input, parser_map, disk>>

\* Step 4, second half: standardizer.write_output(standardized_data,
\* output_path), then the summary and `return 0`
MainWrite ==
    /\ cli.pc = "write"
    /\ LET w == write_output(disk, output_format[1],
                             [ data |-> standardized[1].dataset,
                               writer |-> input[1].writer,
                               include_metadata |-> TRUE,
                               dir_ok |-> TRUE,
                               format |-> input[1].format ])
       IN  /\ disk' = w.disk
           /\ last' = Call("write_output", None, FALSE, w.out, << >>, None)
           /\ Advance("write", w.out, "exit", cli.qc_result)
    /\ pre' = Self
    /\ UNCHANGED <<variant, file, metadata, data, raw_data, is_loaded, is_parsed,
                   is_validated, input, parser_map, standardized, output_format>>

NextMain ==
    MainStart \/ MainParse \/ MainQC \/ MainValidate \/ MainStandardize \/ MainWrite

SpecMain == InitMain /\ [][NextMain]_vars

\* ------------------------------------------------------------------ claims
Flags(s) == <<s.is_loaded, s.is_parsed, s.is_validated>>

Raised == last.out.kind # "ok"

\* C1: across every call of load, parse, validate and process, returning or
\* raising, no flag that is true becomes false.
C1_FlagsNeverUnset ==
    [][ /\ is_loaded => is_loaded'
        /\ is_parsed => is_parsed'
        /\ is_validated => is_validated' ]_vars

\* a call raised on a parser whose three flags were all set, and they still are
C1_Witness ==
    /\ Raised
    /\ Flags(pre) = <<TRUE, TRUE, TRUE>>
    /\ Flags(Self) = <<TRUE, TRUE, TRUE>>

\* the parser's own table has every required column of its variant
OwnTableHasRequired ==
    /\ data # None
    /\ \A i \in 1..Len(required(variant)) : HasCol(data[1], required(variant)[i])

\* C2: in every reachable state is_validated implies is_parsed, is_parsed
\* implies is_loaded, is_parsed implies a non-null table, and is_validated
\* implies that the parser's own table has every required column.
C2_FourStateLifecycle ==
    /\ is_validated => is_parsed
    /\ is_parsed => is_loaded
    /\ is_parsed => data # None
    /\ is_validated => OwnTableHasRequired

\* C3: validate() with no argument on a parser that is not parsed raises
\* ValidationError and leaves the three flags as they were.
C3_ValidateBeforeParse ==
    (last.op = "validate" /\ last.arg = None /\ ~pre.is_parsed)
        => /\ last.out.kind = "ValidationError"
           /\ Flags(Self) = Flags(pre)

\* validate() was called on a loaded, unparsed parser
C3_Witness ==
    /\ last.op = "validate" /\ last.arg = None
    /\ pre.is_loaded /\ ~pre.is_parsed
    /\ last.out.why = "no_data"

\* C4: a process() call right after a successful process() that asked for no
\* less validation runs no step, changes nothing and returns an equal result;
\* load() on a loaded parser, parse() on a parsed parser and validate() on a
\* validated parser leave flags, raw text, table and metadata as they were.
C4_Idempotent ==
    [][ /\ ( /\ last.op = "process" /\ last.out.kind = "ok"
             /\ last'.op = "process"
             /\ (last'.skip \/ ~last.skip) )
           => /\ last'.steps = << >>
              /\ last'.out = Ok
              /\ last'.result = last.result
              /\ Self' = Self
        /\ (last'.op = "load" /\ is_loaded) => Self' = Self
        /\ (last'.op = "parse" /\ is_parsed) => Self' = Self
        /\ (last'.op = "validate" /\ is_validated) => Self' = Self ]_vars

\* process() returned after running no step on a fully processed parser
C4_Witness ==
    /\ last.op = "process" /\ last.out.kind = "ok" /\ ~last.skip
    /\ last.steps = << >>
    /\ Flags(pre) = <<TRUE, TRUE, TRUE>>
    /\ last.result = Result(pre)
    /\ Len(data[1].rows) > 0

\* C5: when validate() raises on a parsed, not yet validated parser, the
\* parser stays parsed and loaded and not validated, with table and metadata
\* unchanged.
C5_FailedValidateKeepsParsed ==
    (last.op = "validate" /\ Raised /\ pre.is_parsed /\ ~pre.is_validated)
        => /\ ~is_validated /\ is_parsed /\ is_loaded
           /\ data = pre.data
           /\ metadata = pre.metadata

\* validate() raised for an out-of-range value of the parser's own table
C5_Witness ==
    /\ last.op = "validate" /\ last.arg = None
    /\ pre.is_parsed /\ ~pre.is_validated
    /\ last.out.kind = "ValidationError" /\ last.out.why = "range"

\* C6: a failing parse() raises ParserError, keeps is_parsed, keeps a null
\* table null, and leaves the metadata unchanged.
C6_FailedParseWholesale ==
    (last.op = "parse" /\ Raised)
        => /\ last.out.kind = "ParserError"
           /\ is_parsed = pre.is_parsed
           /\ (~pre.is_parsed => data = None)
           /\ metadata = pre.metadata

\* parse() raised on loaded text that pandas rejects or cannot summarise
C6_Witness ==
    /\ last.op = "parse" /\ last.out.why = "parse_failed"
    /\ pre.is_loaded /\ ~pre.is_parsed
    /\ read_csv(raw_data[1]) # None

\* ---------------------------------------------------- claims about validate
\* the last call was validate(data) with an explicit table
ValidatedTable == last.op = "validate" /\ last.arg # None

Checked == last.arg[1]

MissingRequired(v, t) == {c \in SeqToSet(required(v)) : ~HasCol(t, c)}

Pos(seq, c) == CHOOSE i \in 1..Len(seq) : seq[i] = c

InOrderOf(cols, ref) ==
    \A i, j \in 1..Len(cols) : i < j => Pos(ref, cols[i]) < Pos(ref, cols[j])

\* the cells of the columns labelled c that are numbers outside [lo, hi]
Outside(t, c, lo, hi) ==
    {ri \in ColCells(t, c) : CellAt(t, ri).k = "num"
                             /\ (CellAt(t, ri).v < lo \/ CellAt(t, ri).v > hi)}

\* the range-checked columns hold numbers or nulls under distinct labels
NumericColumns(v, t) ==
    \A i \in 1..Len(range_map(v)) :
        /\ Cardinality(ColIdx(t, range_map(v)[i].col)) <= 1
        /\ \A ri \in ColCells(t, range_map(v)[i].col) : ~IsStr(CellAt(t, ri))

\* C7: a table lacking required columns makes validate() raise the
\* missing-columns ValidationError listing exactly the missing required
\* columns in the order of the required list, whatever the values present;
\* an electrical table with header col1,col2 names all three columns.
C7_RequiredColumnsFirst ==
    (ValidatedTable /\ MissingRequired(variant, Checked) # {})
        => /\ last.out.kind = "ValidationError"
           /\ last.out.why = "missing"
           /\ SeqToSet(last.out.cols) = MissingRequired(variant, Checked)
           /\ Len(last.out.cols) = Cardinality(MissingRequired(variant, Checked))
           /\ InOrderOf(last.out.cols, required(variant))
           /\ (variant = "electrical" /\ Checked.cols = <<"col1", "col2">>)
                 => last.out.cols = <<"station_id", "depth_m", "resistivity_ohm_m">>

\* two required columns are missing and a value present is out of range
C7_Witness ==
    /\ ValidatedTable
    /\ Cardinality(MissingRequired(variant, Checked)) = 2
    /\ \E i \in 1..Len(range_map(variant)) :
          Outside(Checked, range_map(variant)[i].col,
                  range_map(variant)[i].min, range_map(variant)[i].max) # {}
    /\ last.out.why = "missing"

\* the entries of the range table with a value outside their inclusive bounds
Violators(v, t) ==
    {i \in 1..Len(range_map(v)) :
        Outside(t, range_map(v)[i].col, range_map(v)[i].min, range_map(v)[i].max) # {}}

BreaksSignRule(v, t) ==
    CASE v = "electrical" ->
           \E ri \in ColCells(t, "resistivity_ohm_m") :
              CellAt(t, ri).k = "num" /\ CellAt(t, ri).v <= 0
      [] v = "seismic" ->
           \E ri \in ColCells(t, "time_ms") :
              CellAt(t, ri).k = "num" /\ CellAt(t, ri).v < 0
      [] v = "radar" ->
           \E ri \in ColCells(t, "sample_number") :
              CellAt(t, ri).k = "num" /\ CellAt(t, ri).v < 0

CaseTwins(v, h) ==
    {h2 \in AliasHeaders(v) :
        /\ Len(h2) = Len(h)
        /\ \A i \in 1..Len(h) : Lower(v, h2[i]) = Lower(v, h[i])}

\* the table a new parser of the variant holds after load() and parse()
ParsedTable(v, text) == parse(load(NewParser(v, File(TRUE, text))).s).s.data

\* C10: after a successful parse(), a file with the same rows whose header
\* differs only in the letter case of names parses to the identical table
\* with the same canonical column names.
C10_AliasesIgnoreCase ==
    (last.op = "parse" /\ last.out.kind = "ok")
        => \A h2 \in CaseTwins(variant, file.text.header) :
              ParsedTable(variant, RawText(h2, file.text.rows)) = data

\* ------------------------------------------------------ claims about check
\* check() returned a result for the table the caller passed
QCReturned == last.op = "check" /\ last.result # None

QCTable == input[1]

QCResult == last.result[1]

\* the list holds a message of the named check
Lists(list, chk) == \E i \in 1..Len(list) : list[i].check = chk

NullCells(t) ==
    Cardinality({ri \in (1..Len(t.rows)) \X (1..Len(t.cols)) : t.rows[ri[1]][ri[2]] = Null})

\* rows equal to an earlier row
RepeatedRows(t) ==
    Cardinality({r \in 1..Len(t.rows) : \E q \in 1..Len(t.rows) : q < r /\ t.rows[q] = t.rows[r]})

MissingAbove10(t) == NullCells(t) * 100 > 10 * Len(t.rows) * Len(t.cols)

DuplicatesAbove5(t) == RepeatedRows(t) * 100 > 5 * Len(t.rows)

\* C11: in every result check() returns, passed is true iff issues is
\* empty, issues is non-empty iff the missing-value percentage exceeds 10 or
\* the duplicate-row percentage exceeds 5, and outlier and consistency
\* messages appear in warnings only.
C11_PassedIffNoIssues ==
    QCReturned
        => /\ QCResult.passed = (QCResult.issues = << >>)
           /\ (QCResult.issues # << >>) = (MissingAbove10(QCTable) \/ DuplicatesAbove5(QCTable))
           /\ ~Lists(QCResult.issues, "outliers")
           /\ ~Lists(QCResult.issues, "consistency")

\* a result that passed while its warnings list outliers and zero variance
C11_Witness ==
    /\ QCReturned
    /\ QCResult.passed
    /\ Lists(QCResult.warnings, "outliers")
    /\ Lists(QCResult.warnings, "consistency")
    /\ Len(QCResult.warnings) >= 2

\* C12: when the table has duplicate rows, check() records the duplicates
\* message in issues if the duplicate percentage is above 5 and in warnings
\* (not in issues) if it lies in (0, 5].
C12_DuplicatesRecorded ==
    (QCReturned /\ RepeatedRows(QCTable) > 0)
        => IF DuplicatesAbove5(QCTable)
           THEN Lists(QCResult.issues, "duplicates")
           ELSE Lists(QCResult.warnings, "duplicates") /\ ~Lists(QCResult.issues, "duplicates")

\* C13: the missing-values message is in issues and not in warnings when
\* missing_pct > 10, in warnings and not in issues when 0 < missing_pct <= 10,
\* and in neither list when the table has no null.
C13_MissingThreshold ==
    QCReturned
        => /\ Lists(QCResult.issues, "missing_values") = MissingAbove10(QCTable)
           /\ Lists(QCResult.warnings, "missing_values")
                 = (NullCells(QCTable) > 0 /\ ~MissingAbove10(QCTable))

\* exactly 10% of the cells are null and the message is a warning
C13_Witness ==
    /\ QCReturned
    /\ NullCells(QCTable) > 0
    /\ NullCells(QCTable) * 100 = 10 * Len(QCTable.rows) * Len(QCTable.cols)
    /\ Lists(QCResult.warnings, "missing_values")
    /\ ~Lists(QCResult.issues, "missing_values")

\* ------------------------------------------------ claims about standardize
\* standardize() returned a dataset for the table the caller passed
StdReturned == last.op = "standardize" /\ last.arg # None /\ last.result # None

StdIn == last.arg[1]

StdOut == last.result[1].data

\* the rows of t with at least one non-null value, in their order
NonNullRows(t) == SelectSeq(t.rows, LAMBDA row : \E j \in 1..Len(row) : row[j] # Null)

\* the value is one the tag's conversion of column c rewrites: a string in a
\* column converted to numbers, a non-string in a column converted to str
Rewritten(tag, c, cell) ==
    \/ c \in numeric_columns(tag) /\ IsStr(cell)
    \/ c \in str_columns(tag) /\ ~IsStr(cell)

\* C14: the table standardize() returns has exactly the input's columns in
\* lexicographic order of their names, and exactly the input rows that are
\* not entirely null, in their original order (equal value by value, up to
\* the values the tag's type conversion rewrites); so a table without
\* all-null rows keeps its row count.
C14_SortedColumnsKeptRows ==
    StdReturned
        => /\ Len(StdOut.cols) = Len(StdIn.cols)
           /\ SeqToSet(StdOut.cols) = SeqToSet(StdIn.cols)
           /\ \A i, j \in 1..Len(StdOut.cols) :
                 i < j => Rank(StdOut.cols[i]) < Rank(StdOut.cols[j])
           /\ Len(StdOut.rows) = Len(NonNullRows(StdIn))
           /\ \A k \in 1..Len(StdOut.rows) : \A j \in 1..Len(StdOut.cols) :
                 \A i \in 1..Len(StdIn.cols) :
                    (StdIn.cols[i] = StdOut.cols[j]
                       /\ ~Rewritten(variant, StdIn.cols[i], NonNullRows(StdIn)[k][i]))
                    => StdOut.rows[k][j] = NonNullRows(StdIn)[k][i]
           /\ (\A r \in 1..Len(StdIn.rows) : StdIn.rows[r] \in SeqToSet(NonNullRows(StdIn)))
                 => Len(StdOut.rows) = Len(StdIn.rows)

\* columns reordered and an all-null first row dropped, the second row kept
C14_Witness ==
    /\ StdReturned
    /\ StdOut.cols # StdIn.cols
    /\ Len(StdIn.rows) = 2
    /\ \A j \in 1..Len(StdIn.cols) : StdIn.rows[1][j] = Null
    /\ Len(StdOut.rows) = 1

\* C15: no row of a table standardize() returns has only null values.
C15_NoAllNullRow ==
    StdReturned
        => \A k \in 1..Len(StdOut.rows) : \E j \in 1..Len(StdOut.cols) : StdOut.rows[k][j] # Null

\* ---------------------------------------------- claims about the metadata
\* C16: no call removes a key from the parser's metadata, which always holds
\* file_name, file_path and created_at; and the metadata standardize()
\* returns holds every key of the metadata it was given with the same value,
\* except data_type, which equals the type tag, plus standardized_at and
\* standardization_version = '1.0'.
C16_MetadataOnlyGrows ==
    [][ /\ DOMAIN metadata \subseteq DOMAIN metadata'
        /\ {"file_name", "file_path", "created_at"} \subseteq DOMAIN metadata'
        /\ (last'.op = "standardize" /\ last'.result # None)
              => /\ \A key \in DOMAIN metadata :
                       /\ key \in DOMAIN last'.result[1].metadata
                       /\ key # "data_type" => last'.result[1].metadata[key] = metadata[key]
                 /\ "standardized_at" \in DOMAIN last'.result[1].metadata
                 /\ last'.result[1].metadata["standardization_version"] = MStr("1.0")
                 /\ last'.result[1].metadata["data_type"] = MStr(variant) ]_vars

\* standardize() returned for a parsed dataset whose data_type it overwrote
C16_Witness ==
    /\ last.op = "standardize" /\ last.result # None
    /\ "record_count" \in DOMAIN metadata
    /\ metadata["data_type"] # MStr(variant)
    /\ last.result[1].metadata["record_count"] = metadata["record_count"]
    /\ last.result[1].metadata["data_type"] = MStr(variant)

\* C17: check() and standardize() leave the parser's table and metadata
\* exactly as they were, the dict and the frame standardize() returns are
\* private objects, and the caller's later changes to them do not reach the
\* parser.
C17_InputsNotModified ==
    /\ last.op \in {"check", "standardize", "change"} => Self = pre
    /\ standardized # None
          => /\ standardized[1].metadata_object # "parser"
             /\ standardized[1].data_object # "parser"

\* the caller set a key in the returned metadata and the parser's has none
C17_Witness ==
    /\ last.op = "change"
    /\ "note" \in DOMAIN standardized[1].dataset.metadata
    /\ "note" \notin DOMAIN metadata
    /\ "standardized_at" \notin DOMAIN metadata
    /\ data # None

\* ----------------------------------------------- claims about write_output
\* C18: whenever write_output() or the construction of the Standardizer
\* raises, the error is of the ParserError family.
C18_WriteErrorsWrapped ==
    (last.op \in {"write_output", "Standardizer"} /\ last.out.kind # "ok")
        => last.out.kind \in {"ParserError", "ValidationError"}

\* ---------------------------------------------- claims about the Dispatcher
\* the registered class whose tag is a letter-casing of the given tag
RegisteredAs(map, tag) ==
    {map[i].class : i \in {j \in 1..Len(map) :
        \E sp \in TagSpellings : map[j].tag \in SeqToSet(sp) /\ tag \in SeqToSet(sp)}}

\* C19: get_parser looks the tag up without regard to letter case.  For any
\* casing of a registered tag it returns the registered class when no source
\* is given and, for a source that is a non-empty file and a class that
\* implements load, parse and validate, a new parser of that class bound to
\* the source; for a tag that is not registered it raises
\* ParserError listing the registered tags.  The registry is never changed.
C19_GetParserIgnoresCase ==
    [][ last'.op = "get_parser"
          => /\ parser_map' = parser_map
             /\ IF RegisteredAs(parser_map, last'.arg[1].data_type) = {}
                THEN /\ last'.out.kind = "ParserError"
                     /\ last'.out.cols = [i \in 1..Len(parser_map) |-> parser_map[i].tag]
                     /\ last'.result = None
                ELSE /\ last'.arg[1].file_path = None
                        => /\ last'.out = Ok
                           /\ last'.result[1] \in RegisteredAs(parser_map, last'.arg[1].data_type)
                           /\ Self' = Self
                     /\ ( /\ last'.arg[1].file_path # None
                          /\ last'.arg[1].file_path[1].kind = "file"
                          /\ \A c \in RegisteredAs(parser_map, last'.arg[1].data_type) :
                                abstractmethods(c) = {} )
                        => /\ last'.out = Ok
                           /\ last'.result[1] \in RegisteredAs(parser_map, last'.arg[1].data_type)
                           /\ Self' = NewParser(VariantOf(last'.result[1]),
                                                last'.arg[1].file_path[1].file) ]_vars

\* an upper-case tag of a class registered later returned a bound parser
C19_Witness ==
    /\ last.op = "get_parser"
    /\ last.arg[1].data_type = "CUSTOM"
    /\ last.arg[1].file_path # None
    /\ last.out = Ok
    /\ last.result = Some("CustomParser")
    /\ variant = "custom"
    /\ ~is_loaded

\* the type the extension stands for, whatever its letter case
TypeOfExtension(ext) ==
    IF ext \in {"sgy", "Sgy", "SGY", "segy", "Segy", "SEGY"} THEN "seismic"
    ELSE IF ext \in {"dzt", "Dzt", "DZT", "rd3", "Rd3", "RD3"} THEN "radar"
    ELSE IF ext \in {"csv", "Csv", "CSV", "txt", "Txt", "TXT", "dat", "Dat", "DAT"}
         THEN "electrical"
    ELSE ""

\* C20: detect_type maps the suffix of the file name, whatever its letter
\* case, .sgy/.segy to seismic, .dzt/.rd3 to radar and .csv/.txt/.dat to
\* electrical; for any other suffix, or none, it raises ParserError listing
\* the supported extensions; it never changes the registry.
C20_DetectTypeBySuffix ==
    [][ last'.op = "detect_type"
          => /\ parser_map' = parser_map
             /\ IF TypeOfExtension(suffix(last'.arg[1])) # ""
                THEN /\ last'.out = Ok
                     /\ last'.result = Some(TypeOfExtension(suffix(last'.arg[1])))
                ELSE /\ last'.out.kind = "ParserError"
                     /\ last'.out.cols = <<"dat", "txt", "csv", "sgy", "segy", "dzt", "rd3">>
                     /\ last'.result = None ]_vars

\* an upper-case .SEGY after a further dot was detected as seismic
C20_Witness ==
    /\ last.op = "detect_type"
    /\ last.arg[1] = <<"survey", "v2", "SEGY">>
    /\ last.result = Some("seismic")

\* the lower-case spelling of a tag and all its spellings
TagKey(tag) == (CHOOSE sp \in TagSpellings : tag \in SeqToSet(sp))[1]

SpellingsOf(tag) == SeqToSet(CHOOSE sp \in TagSpellings : tag \in SeqToSet(sp))

\* the registry new holds class under key, once, and otherwise the entries
\* of old, in their places
OnlyEntryChanged(old, new, key, class) ==
    /\ Cardinality({i \in 1..Len(new) : new[i].tag = key}) = 1
    /\ \A i \in 1..Len(new) : new[i].tag = key => new[i].class = class
    /\ Len(new) = IF \E i \in 1..Len(old) : old[i].tag = key THEN Len(old) ELSE Len(old) + 1
    /\ \A i \in 1..Len(old) : old[i].tag # key => new[i] = old[i]
    /\ \A i \in 1..Len(old) : old[i].tag = key => new[i].tag = key

\* register_parser raises TypeError and leaves the registry alone for the
\* rejected classes; for any other class it sets exactly the entry of the
\* lower-cased tag, and get_parser then returns the class for every casing
RegisterContract(rejected) ==
    last'.op = "register_parser"
        => IF last'.arg[1].class \in rejected
           THEN /\ last'.out.kind = "TypeError"
                /\ parser_map' = parser_map
           ELSE /\ last'.out = Ok
                /\ OnlyEntryChanged(parser_map, parser_map',
                                    TagKey(last'.arg[1].data_type), last'.arg[1].class)
                /\ \A tag \in SpellingsOf(last'.arg[1].data_type) :
                      get_parser(parser_map', tag, None)
                          = Got(Ok, Some(last'.arg[1].class), None)

\* C21 (as claimed): register_parser adds or overwrites exactly the entry of
\* the lower-cased tag, so that get_parser with any casing returns the class;
\* for a class that does not implement all of load, parse, validate and
\* process it raises TypeError and leaves the registry unchanged.
C21_RegisterChecksContract ==
    [][RegisterContract({"object", "BaseParser", "IncompleteParser", "PartialParser"})]_vars

\* C21 (amended): register_parser adds or overwrites exactly the entry of the
\* lower-cased tag, so that get_parser with any casing returns the class; for
\* a class that is not a subclass of BaseParser it raises TypeError and leaves
\* the registry unchanged; a subclass is registered whether or not it
\* implements load, parse and validate.
C21_RegisterChecksSubclass == [][RegisterContract({"object"})]_vars

\* the entry of a built-in tag was overwritten, given in upper case, while
\* an entry registered earlier stayed
C21_Witness ==
    /\ last.op = "register_parser"
    /\ last.arg[1] = [data_type |-> "ELECTRICAL", class |-> "SeismicParser"]
    /\ last.out = Ok
    /\ Len(parser_map) = 4
    /\ parser_map[1] = [tag |-> "electrical", class |-> "SeismicParser"]
    /\ parser_map[4] = [tag |-> "custom", class |-> "IncompleteParser"]

\* get_parser called a class that implements load, parse and validate on a
\* path that does not exist or names a zero-byte file
ConstructsOnBadSource ==
    /\ last'.op = "get_parser"
    /\ last'.arg[1].file_path # None
    /\ last'.arg[1].file_path[1].kind \in {"missing", "empty_file"}
    /\ RegisteredAs(parser_map, last'.arg[1].data_type) # {}
    /\ \A c \in RegisteredAs(parser_map, last'.arg[1].data_type) : abstractmethods(c) = {}

\* the call raised and no instance came to exist
NoInstance ==
    /\ last'.out.kind # "ok"
    /\ last'.result = None
    /\ Self' = Self

\* C22 (as claimed): constructing a parser of any variant on a path that does
\* not exist or on a zero-byte file raises an error of the ParserError
\* family, and no instance exists for such a source.
C22_ConstructionRaisesParserError ==
    [][ ConstructsOnBadSource
          => /\ NoInstance
             /\ last'.out.kind \in {"ParserError", "ValidationError"} ]_vars

\* C22 (amended): constructing a parser of any variant on a path that does
\* not exist raises FileNotFoundError, and on a zero-byte file ParserError;
\* in both cases no instance exists for such a source.
C22_ConstructionRaises ==
    [][ ConstructsOnBadSource
          => /\ NoInstance
             /\ last'.out.kind = IF last'.arg[1].file_path[1].kind = "missing"
                                 THEN "FileNotFoundError" ELSE "ParserError" ]_vars

\* a seismic parser was asked for on a zero-byte file while the caller held
\* a parser constructed earlier, which is still the one it holds
C22_Witness ==
    /\ last.op = "get_parser"
    /\ last.arg[1].data_type = "Seismic"
    /\ last.arg[1].file_path # None
    /\ last.arg[1].file_path[1].kind = "empty_file"
    /\ last.out = ParserError("empty_file")
    /\ pre.variant = "radar"
    /\ Self = pre

\* C23: a class that leaves load, parse or validate abstract is never
\* instantiated: calling it raises TypeError whatever the path names, also a
\* path that does not exist, and no instance comes to exist.
C23_AbstractNeverInstantiated ==
    [][ ( /\ last'.op = "get_parser"
          /\ last'.arg[1].file_path # None
          /\ last'.arg[1].file_path[1].kind # "empty_string"
          /\ \E c \in RegisteredAs(parser_map, last'.arg[1].data_type) :
                abstractmethods(c) # {} )
          => /\ last'.out.kind = "TypeError"
             /\ NoInstance ]_vars

\* BaseParser itself was called on a path that does not exist
C23_Witness ==
    /\ last.op = "get_parser"
    /\ last.arg[1].file_path # None
    /\ last.arg[1].file_path[1].kind = "missing"
    /\ RegisteredAs(parser_map, last.arg[1].data_type) = {"BaseParser"}
    /\ last.out.kind = "TypeError"

\* ------------------------------------------------------- claims about main
\* the steps of main in their order; --skip-qc leaves qc out
MainOrder ==
    IF input[1].skip_qc THEN <<"parse", "validate", "standardize", "write">>
    ELSE <<"parse", "qc", "validate", "standardize", "write">>

\* the step main ran last
LastStep == cli.steps[Len(cli.steps)]

\* the data file and the sidecar, complete or not
OutputFiles == {f \in disk : f.file \in {"data", "sidecar"}}

\* C24: main runs parse (without validation), qc (unless --skip-qc),
\* validate, standardize, write in this order; output files exist only after
\* validate() has returned; a failed validation ends the run with exit
\* status 1 and nothing written; a run ends early only when a step raises,
\* so after qc has returned a result, passed or not, validate() is run.
C24_ValidationGatesOutput ==
    /\ Len(cli.steps) <= Len(MainOrder)
    /\ cli.steps = SubSeq(MainOrder, 1, Len(cli.steps))
    /\ cli.steps = <<"parse">>
          => /\ last.op = "process" /\ last.skip
             /\ \A i \in 1..Len(last.steps) : last.steps[i] # "validate"
             /\ ~is_validated
    /\ OutputFiles # {}
          => /\ is_validated
             /\ \E i \in 1..Len(cli.steps) - 1 : cli.steps[i] = "validate"
    /\ (cli.steps # << >> /\ LastStep = "validate" /\ last.out.kind # "ok")
          => /\ cli.pc = "exit"
             /\ cli.exit_code = Some(1)
             /\ disk = {}
    /\ (cli.steps # << >> /\ LastStep = "qc" /\ cli.qc_result # None) => cli.pc = "validate"
    /\ (cli.steps # << >> /\ cli.exit_code = Some(1)) => last.out.kind # "ok"
    /\ cli.exit_code = Some(0) => cli.steps = MainOrder

\* a run whose qc result was passed = false went on through validation and
\* wrote the data file and the sidecar
C24_Witness ==
    /\ cli.pc = "exit"
    /\ cli.exit_code = Some(0)
    /\ cli.qc_result = Some(FALSE)
    /\ cli.steps = <<"parse", "qc", "validate", "standardize", "write">>
    /\ OutputFiles = {Written("data", TRUE), Written("sidecar", TRUE)}

\* ---------------------------------------------------- claims about process
\* the last process() call ran the step
Ran(step) == \E i \in 1..Len(last.steps) : last.steps[i] = step

\* the flag the step sets, as it is now
FlagOf(step) ==
    CASE step = "load" -> is_loaded
      [] step = "parse" -> is_parsed
      [] step = "validate" -> is_validated

\* the flag as it was when the call started
FlagBefore(step) ==
    CASE step = "load" -> pre.is_loaded
      [] step = "parse" -> pre.is_parsed
      [] step = "validate" -> pre.is_validated

\* C25: process(skip_validation) runs its steps in the order load, parse,
\* validate; it runs load and parse only when their flag was not set, and
\* validate only when skip_validation is false and is_validated was not set.
\* When it returns it has run each of these steps whose condition held, and
\* is_loaded, is_parsed and (skip_validation or is_validated) hold.  When a
\* step raises it is the last step run, its flag is as it was, and the flags
\* of the steps run before it are set.
C25_ProcessOrder ==
    last.op = "process"
        => /\ InOrderOf(last.steps, <<"load", "parse", "validate">>)
           /\ Ran("load") => ~pre.is_loaded
           /\ Ran("parse") => ~pre.is_parsed
           /\ Ran("validate") => ~last.skip /\ ~pre.is_validated
           /\ last.out.kind = "ok"
                 => /\ Ran("load") = ~pre.is_loaded
                    /\ Ran("parse") = ~pre.is_parsed
                    /\ Ran("validate") = (~last.skip /\ ~pre.is_validated)
                    /\ is_loaded /\ is_parsed
                    /\ last.skip \/ is_validated
           /\ Raised
                 => /\ last.steps # << >>
                    /\ ~FlagOf(last.steps[Len(last.steps)])
                    /\ \A i \in 1..Len(last.steps) - 1 : FlagOf(last.steps[i])
                    /\ \A step \in {"load", "parse", "validate"} :
                          ~Ran(step) => FlagOf(step) = FlagBefore(step)

\* process() ran load and parse on a new parser and validate() raised
C25_Witness ==
    /\ last.op = "process" /\ ~last.skip
    /\ last.steps = <<"load", "parse", "validate">>
    /\ last.out.kind = "ValidationError"
    /\ is_loaded /\ is_parsed /\ ~is_validated

\* C26: validate(data) on a table either returns true or raises
\* ValidationError, never another kind of error, whatever the cells hold.
C26_ValidateRaisesOnlyValidationError ==
    ValidatedTable => last.out.kind \in {"ok", "ValidationError"}

\* the data file and the sidecar among the given files
OutputsIn(files) == {w \in files : w.file \in {"data", "sidecar"}}

\* C27: write_output completes or fails wholesale: a call that raises has
\* written neither the data file nor the sidecar.
C27_WriteFailsWholesale ==
    [][ (last'.op = "write_output" /\ last'.out.kind # "ok")
          => OutputsIn(disk') = OutputsIn(disk) ]_vars

\* every cell of the table is a number or null
NumbersOrNulls(t) ==
    \A r \in 1..Len(t.rows) : \A i \in 1..Len(t.cols) : t.rows[r][i].k \in {"num", "null"}

\* the cells under the given labels that are null
NullsIn(t, labels) == {ri \in UNION {ColCells(t, c) : c \in labels} : CellAt(t, ri).k = "null"}

\* C28: validate() treats null cells as in range.  For a table with every
\* required column, distinctly labelled columns and cells that are numbers or
\* nulls, validate() succeeds iff every non-null value of every present
\* range-checked column lies within its bounds; a failure is never about a
\* column whose only offending cells would be nulls, and a validated table
\* may hold nulls in required columns.
C28_NullsAreInRange ==
    (ValidatedTable /\ MissingRequired(variant, Checked) = {}
                    /\ NumericColumns(variant, Checked) /\ NumbersOrNulls(Checked))
        => /\ (last.out.kind = "ok") = (Violators(variant, Checked) = {})
           /\ (last.out.kind = "ok") = is_validated
           /\ last.out.kind # "ok"
                 => /\ last.out.kind = "ValidationError"
                    /\ last.out.why = "range"
                    /\ last.out.count > 0
                    /\ last.out.count =
                          Cardinality(Outside(Checked, last.out.cols[1],
                                              RangeOf(variant, last.out.cols[1]).min,
                                              RangeOf(variant, last.out.cols[1]).max))

\* a table was validated that holds a null in a required column that is
\* range-checked and a null in one that is not
C28_Witness ==
    /\ ValidatedTable /\ NumbersOrNulls(Checked)
    /\ last.out.kind = "ok" /\ is_validated
    /\ Len(Checked.rows) > 0
    /\ NullsIn(Checked, {c \in SeqToSet(required(variant)) :
                            \E i \in 1..Len(range_map(variant)) : range_map(variant)[i].col = c}) # {}
    /\ NullsIn(Checked, {c \in SeqToSet(required(variant)) :
                            \A i \in 1..Len(range_map(variant)) : range_map(variant)[i].col # c}) # {}

\* C29: after every successful parse() the column names of the table are
\* pairwise distinct, also when the header holds several aliases of one
\* canonical column.
C29_ParsedLabelsDistinct ==
    (last.op = "parse" /\ last.out.kind = "ok") => ~HasDuplicateLabels(data[1])

\* C30: standardize is idempotent on the table: standardizing the dataset a
\* call returned, under the same tag, returns a table with the same columns
\* in the same order and the same rows, value by value.
C30_StandardizeIdempotent ==
    [][ (/\ standardized # None
         /\ last'.op = "standardize"
         /\ last'.arg = Some(standardized[1].dataset.data))
          => /\ last'.result # None
             /\ last'.result[1].data = standardized[1].dataset.data ]_vars
====
